---- MODULE Spec2Model ----
(***************************************************************************)
(* AuroraCraft server-side build pipeline: the BuildRunner state machine   *)
(* (build-runner.ts), the runner registry, the build HTTP endpoints of     *)
(* routes.ts, the Build State Store and the File Store.                    *)
(*                                                                         *)
(* One step of a runner is the completion of the operation it awaits       *)
(* (a storage call, a gateway call, a timer, a decision) followed by the   *)
(* synchronous code up to the next await.  Storage operations take effect  *)
(* when they complete.                                                     *)
(***************************************************************************)
EXTENDS Naturals, Sequences, FiniteSets, TLC

VARIABLES
    builds,         \* Build State Store: build id -> durable Build record
    files,          \* File Store: file id -> row, or NoFile
    nextFileId,     \* next serial id of the File Store
    runners,        \* BuildRunner objects (slots)
    activeRunners,  \* registry: build id -> runner, 0 when absent
    startReq,       \* Start-build requests between the active check and createBuild
    cancelReq,      \* Cancel requests awaiting their updateBuild
    resumeReq,      \* Resume requests awaiting their updateBuild
    approveReq,     \* Approve requests (no live runner) awaiting their updateBuild
    subs,           \* event stream subscribers
    emitted,        \* per build: progress events emitted so far (history)
    cancelled,      \* per build: Cancel hit a live runner and no Resume since (history)
    last            \* what the step just taken did (history)

vars == <<builds, files, nextFileId, runners, activeRunners, startReq, cancelReq,
          resumeReq, approveReq, subs, emitted, cancelled, last>>

----------------------------------------------------------------------------
\* Bounds of the model
MaxBuilds == 2
MaxRunners == 2
MaxFileId == 3
MaxSubs == 1
MaxAgentSteps == 2
MaxPhaseFiles == 3

\* Program constants
MAX_RETRIES == 2
MAX_CONTINUATIONS == 3
MAX_AGENTIC_STEPS == 20

BuildIds == 1..MaxBuilds
RunnerIds == 1..MaxRunners
FileIds == 1..MaxFileId
SubIds == 1..MaxSubs

Paths == {"a", "b", "c"}
Absent == "absent"
NoFile == [path |-> "", content |-> Absent]

NonTerminal == {"planning", "awaiting-approval", "building", "reviewing"}
InFlight == {"generating", "updating"}
Transient == {"generating", "updating", "reading", "deleting"}

NoPlan == [kind |-> "none", phases |-> <<>>]
NoMem == [p \in Paths |-> Absent]
NoIds == [p \in Paths |-> 0]

NoBuild == [status |-> "none", plan |-> NoPlan, phases |-> <<>>, mem |-> NoMem]

\* BuildEvent, reduced to its tag and indexes
Ev(t, p, f) == [type |-> t, p |-> p, f |-> f]

\* A File Store operation of a step; late: the runner issued it with its
\* abort signal already set
NoFs == [op |-> "none", path |-> "", id |-> 0, late |-> FALSE]
NoUpd == [status |-> "", plan |-> FALSE, phases |-> FALSE]

\* Error messages are sequences of characters; NoMsg stands for no message.
\* err: the messages a step puts in its event, in FileState.error and in
\* the error field of its Build State Store update
NoMsg == <<"(none)">>
NoErr == [raw |-> NoMsg, event |-> NoMsg, state |-> NoMsg, durable |-> NoMsg]

\* msg.replace(/<[^>]*>/g, "")
RECURSIVE StripTags(_)
StripTags(m) ==
    IF \A k \in 1..Len(m) : m[k] # ">" THEN m
    ELSE LET k == CHOOSE k \in 1..Len(m) : m[k] = ">" /\ \A i \in 1..(k - 1) : m[i] # ">"
             rest == StripTags(SubSeq(m, k + 1, Len(m)))
         IN IF \E i \in 1..(k - 1) : m[i] = "<"
            THEN LET i == CHOOSE i \in 1..(k - 1) : m[i] = "<" /\ \A h \in 1..(i - 1) : m[h] # "<"
                 IN SubSeq(m, 1, i - 1) \o rest
            ELSE SubSeq(m, 1, k) \o rest

UnknownErrorOccurred ==
    <<"A","n"," ","u","n","k","n","o","w","n"," ","e","r","r","o","r"," ",
      "o","c","c","u","r","r","e","d">>

\* Variant: sanitizeError returns its argument
sanitizeErrorRaw(msg) == msg

\* BuildRunner.sanitizeError
sanitizeError(msg) ==
    IF msg = <<>> THEN UnknownErrorOccurred
    ELSE LET clean == StripTags(msg)
         IN IF Len(clean) > 300 THEN SubSeq(clean, 1, 297) \o <<".", ".", ".">>
            ELSE clean

\* e.message || fallback
OrElse(msg, fallback) == IF msg = <<>> THEN fallback ELSE msg

UnknownError == <<"U","n","k","n","o","w","n"," ","e","r","r","o","r">>
FixFailed == <<"F","i","x"," ","f","a","i","l","e","d">>
BuildFailed == <<"B","u","i","l","d"," ","f","a","i","l","e","d">>

\* The message of an error the runner throws itself, of a rejection whose
\* text the scenario leaves open
InternalError == <<"i">>
GenericError == <<"e">>

\* The message of the error being handled
Thrown(s) == IF s.raw = NoMsg THEN InternalError ELSE s.raw
UpdPhases == [status |-> "", plan |-> FALSE, phases |-> TRUE]
UpdStatus(st) == [status |-> st, plan |-> FALSE, phases |-> FALSE]
UpdStatusPhases(st) == [status |-> st, plan |-> FALSE, phases |-> TRUE]
UpdAll(st) == [status |-> st, plan |-> TRUE, phases |-> TRUE]

RANGE(f) == {f[x] : x \in DOMAIN f}

\* PhaseState[] derived from a plan: every phase and file pending
PendingPhases(plan) ==
    [k \in 1..Len(plan.phases) |->
        [status |-> "pending",
         files |-> [j \in 1..Len(plan.phases[k]) |->
                       [path |-> plan.phases[k][j], status |-> "pending"]]]]

\* Index of the first element of seq equal to x, 0 when none (findIndex)
FindIndex(seq, x) ==
    IF \E j \in 1..Len(seq) : seq[j] = x
    THEN CHOOSE j \in 1..Len(seq) : seq[j] = x /\ \A i \in 1..(j-1) : seq[i] # x
    ELSE 0

----------------------------------------------------------------------------
\* A BuildRunner object
IdleRunner ==
    [pc |-> "idle", kind |-> "", build |-> 0, aborted |-> FALSE,
     plan |-> NoPlan, phases |-> <<>>, mem |-> NoMem, ids |-> NoIds,
     phaseIdx |-> 0, fileIdx |-> 0, dynIdx |-> 0,
     reads |-> <<>>, fixes |-> <<>>, fixP |-> 0, fixF |-> 0,
     site |-> "", attempt |-> 0, cont |-> 0, ret |-> "", upd |-> NoUpd,
     step |-> 0, act |-> "",
     wsite |-> "", wpath |-> "", text |-> "", resp |-> [t |-> "", phases |-> <<>>, list |-> <<>>, text |-> ""],
     approvalResolve |-> FALSE, fileErrorResolve |-> FALSE,
     pendingFileError |-> FALSE, timer |-> FALSE, staleTimer |-> FALSE,
     persisted |-> <<>>, wab |-> FALSE, firstGen |-> <<0, 0>>, gateCancel |-> FALSE,
     retried |-> <<0, 0>>, msgs |-> 0,
     log |-> <<>>, summary |-> <<>>,
     evs |-> <<>>, fs |-> NoFs, wst |-> "", inp |-> "", raw |-> NoMsg, err |-> NoErr]

NewRunner(b, kind) ==
    [IdleRunner EXCEPT !.pc = "getBuild", !.kind = kind, !.build = b]

Emit(s, e) == [s EXCEPT !.evs = Append(@, e)]

\* The step was given input x
Input(s, x) == [s EXCEPT !.inp = x]

SetFile(s, p, f, st) == [s EXCEPT !.phases[p].files[f].status = st]

\* Issue updateBuildState(upd) and continue at ret when it completes
Persist(s, upd, ret) == [s EXCEPT !.pc = "persist", !.upd = upd, !.ret = ret]


----------------------------------------------------------------------------
\* Gateway responses, reduced to what the runner reads from them
Resp(t, phases, list, text) == [t |-> t, phases |-> phases, list |-> list, text |-> text]
NoResp == Resp("", <<>>, <<>>, "")
TextResp(c) == Resp("text", <<>>, <<>>, c)
ListResp(l) == Resp("list", <<>>, l, "")
BuildResp(ph) == Resp("build", ph, <<>>, "")
OkResp == Resp("ok", <<>>, <<>>, "x")

\* fullText.length > 0
NonEmptyText(resp) == ~(resp.t = "text" /\ resp.text = "")

\* The text a continuation loop returns when it stops before finishReason
\* leaves "length": file content cut short, structured output unparseable
Truncated(resp) ==
    IF resp.t = "text" THEN TextResp("cut")
    ELSE IF resp.t = "ok" THEN resp
    ELSE Resp("bad", <<>>, <<>>, "")

----------------------------------------------------------------------------
\* Variant: every error caught in start()/resume() is recorded as error
TopCatchError(s, cancelMsg) ==
    Persist(Emit(s, Ev("build-error", 0, 0)), UpdStatus("error"), "return")

\* start()/resume(): catch (e) { ... } — emit build-error, then persist
\* cancelled when the message is "Build cancelled" or the signal is aborted
TopCatch(s, cancelMsg) ==
    IF cancelMsg \/ s.aborted
    THEN Persist(Emit(s, Ev("build-error", 0, 0)), UpdStatus("cancelled"), "return")
    ELSE Persist(Emit([s EXCEPT !.err = [raw |-> Thrown(s),
                                         event |-> sanitizeError(OrElse(Thrown(s), BuildFailed)),
                                         state |-> NoMsg,
                                         durable |-> OrElse(Thrown(s), BuildFailed)]],
                      Ev("build-error", 0, 0)),
                 UpdStatus("error"), "return")

\* callAI entry: the first attempt's signal check
CallAI(s, site) ==
    IF s.aborted THEN TopCatch(s, TRUE)
    ELSE [s EXCEPT !.pc = "ai", !.site = site, !.attempt = 0, !.cont = 0, !.resp = NoResp]

\* summaryPhase up to its first await
SummaryPhase(s) ==
    IF s.aborted THEN TopCatch(s, TRUE)
    ELSE Persist(Emit(s, Ev("thinking", 0, 0)), NoUpd, "summary_call")

\* Variant: the phase loop enters every phase, complete or not
PhaseLoopAll(s, k) ==
    IF k > Len(s.plan.phases) THEN SummaryPhase([s EXCEPT !.phaseIdx = k])
    ELSE IF s.aborted THEN TopCatch(s, TRUE)
    ELSE Persist(Emit([s EXCEPT !.phaseIdx = k, !.phases[k].status = "active"],
                      Ev("phase-start", k, 0)),
                 UpdPhases, "phase_started")

\* executePhases: top of the phase loop, from phase k
RECURSIVE PhaseLoop(_, _)
PhaseLoop(s, k) ==
    IF k > Len(s.plan.phases) THEN SummaryPhase([s EXCEPT !.phaseIdx = k])
    ELSE IF s.aborted THEN TopCatch(s, TRUE)
    ELSE IF s.phases[k].status = "complete" THEN PhaseLoop(s, k + 1)
    ELSE Persist(Emit([s EXCEPT !.phaseIdx = k, !.phases[k].status = "active"],
                      Ev("phase-start", k, 0)),
                 UpdPhases, "phase_started")

\* executePhases: mark the phase complete
PhaseComplete(s) ==
    Persist(Emit([s EXCEPT !.phases[s.phaseIdx].status = "complete"],
                 Ev("phase-complete", s.phaseIdx, 0)),
            UpdStatusPhases("building"), "phase_next")

\* Variant: a path found in another phase keeps the current phase's index
FindFixLocal(plan, p, path) ==
    IF FindIndex(plan.phases[p], path) # 0 THEN <<p, FindIndex(plan.phases[p], path)>>
    ELSE IF \E q \in 1..Len(plan.phases) : FindIndex(plan.phases[q], path) # 0
         THEN LET q == CHOOSE q \in 1..Len(plan.phases) : FindIndex(plan.phases[q], path) # 0
              IN <<p, FindIndex(plan.phases[q], path)>>
         ELSE <<0, 0>>

\* Cross-phase search of a fix path: current phase first, then all phases
FindFix(plan, p, path) ==
    IF FindIndex(plan.phases[p], path) # 0 THEN <<p, FindIndex(plan.phases[p], path)>>
    ELSE IF \E q \in 1..Len(plan.phases) : FindIndex(plan.phases[q], path) # 0
         THEN LET q == CHOOSE q \in 1..Len(plan.phases) :
                          /\ FindIndex(plan.phases[q], path) # 0
                          /\ \A i \in 1..(q-1) : FindIndex(plan.phases[i], path) = 0
              IN <<q, FindIndex(plan.phases[q], path)>>
         ELSE <<0, 0>>

\* executePhases: the cross-phase fix loop over the remaining fixes
RECURSIVE FixLoop(_)
FixLoop(s) ==
    IF s.fixes = <<>> THEN PhaseComplete(s)
    ELSE IF s.aborted THEN TopCatch(s, TRUE)
    ELSE LET loc == FindFix(s.plan, s.phaseIdx, Head(s.fixes))
             t == [s EXCEPT !.fixes = Tail(@)]
         IN IF loc = <<0, 0>> THEN FixLoop(t)
            ELSE Persist(Emit(SetFile([t EXCEPT !.fixP = loc[1], !.fixF = loc[2]],
                                      loc[1], loc[2], "updating"),
                              Ev("file-updating", loc[1], loc[2])),
                         UpdPhases, "fix_call")

\* A fix failed (gateway or File Store): mark error, go on with the next fix
FixError(s) ==
    Persist(Emit(SetFile([s EXCEPT !.err = [raw |-> Thrown(s),
                                            event |-> OrElse(Thrown(s), FixFailed),
                                            state |-> Thrown(s),
                                            durable |-> NoMsg]],
                         s.fixP, s.fixF, "error"),
                 Ev("file-error", s.fixP, s.fixF)),
            UpdPhases, "fix_next")

\* executePhases: the phase review, up to its first await
ReviewStart(s) ==
    IF s.aborted THEN TopCatch(s, TRUE)
    ELSE Persist(Emit([s EXCEPT !.phases[s.phaseIdx].status = "reviewing"],
                      Ev("phase-reviewing", s.phaseIdx, 0)),
                 UpdStatusPhases("reviewing"), "review_call")

\* The file loop sets file f of phase p to generating; firstGen keeps the
\* first file the run did this for
Generating(s, p, f) ==
    Persist(Emit(SetFile([s EXCEPT !.firstGen = IF @ = <<0, 0>> THEN <<p, f>> ELSE @],
                         p, f, "generating"),
                 Ev("file-generating", p, f)),
            UpdPhases, "file_call")

\* Variant: the file loop generates every file, created or not
FileLoopAll(s) ==
    IF s.fileIdx > Len(s.plan.phases[s.phaseIdx]) THEN ReviewStart(s)
    ELSE IF s.aborted THEN TopCatch(s, TRUE)
    ELSE Generating(s, s.phaseIdx, s.fileIdx)

\* executePhases: top of the file loop, at s.fileIdx
RECURSIVE FileLoop(_)
FileLoop(s) ==
    LET p == s.phaseIdx
        f == s.fileIdx
    IN IF f > Len(s.plan.phases[p]) THEN ReviewStart(s)
       ELSE IF s.aborted THEN TopCatch(s, TRUE)
       ELSE IF s.phases[p].files[f].status \in {"created", "updated"}
            THEN FileLoop(Emit([s EXCEPT !.fileIdx = f + 1], Ev("file-created", p, f)))
            ELSE Generating(s, p, f)

\* Variant: a failed file is thrown on to start()/resume()
FileErrorFatal(s) == TopCatch(s, FALSE)

\* executePhases: a file failed — mark error, emit, persist, then suspend
FileError(s) ==
    LET errorMsg == sanitizeError(OrElse(Thrown(s), UnknownError)) IN
    Persist(Emit(SetFile([s EXCEPT !.err = [raw |-> Thrown(s), event |-> errorMsg,
                                            state |-> errorMsg, durable |-> NoMsg]],
                         s.phaseIdx, s.fileIdx, "error"),
                 Ev("file-error", s.phaseIdx, s.fileIdx)),
            UpdPhases, "file_suspend")

\* Variant: a retry decision moves on to the next file as any other does
AfterFileDecisionNoRetry(s, decision) ==
    LET t == [s EXCEPT !.pendingFileError = FALSE] IN
    IF decision = "cancel" THEN TopCatch(t, TRUE)
    ELSE FileLoop([t EXCEPT !.fileIdx = @ + 1])

\* executePhases: after the file-error decision resolves; retried keeps the
\* file of the run's latest retry decision
AfterFileDecision(s, decision) ==
    LET t == [s EXCEPT !.pendingFileError = FALSE] IN
    IF decision = "cancel" THEN TopCatch(t, TRUE)
    ELSE IF decision = "retry"
    THEN FileLoop([t EXCEPT !.retried = <<s.phaseIdx, s.fileIdx>>])
    ELSE FileLoop([t EXCEPT !.fileIdx = @ + 1])

\* executePhases: the dependency read loop over the remaining paths
RECURSIVE ReadLoop(_)
ReadLoop(s) ==
    IF s.reads = <<>> THEN FileLoop([s EXCEPT !.fileIdx = 1])
    ELSE IF s.aborted THEN TopCatch(s, TRUE)
    ELSE LET path == Head(s.reads)
             t == [s EXCEPT !.reads = Tail(@)]
         IN IF s.mem[path] \in {Absent, ""} THEN ReadLoop(t)
            ELSE Persist(
                   Emit(Emit([t EXCEPT !.phases[s.phaseIdx].files =
                                          Append(@, [path |-> path, status |-> "reading"]),
                                       !.fileIdx = s.dynIdx,
                                       !.dynIdx = @ + 1],
                             Ev("dynamic-file", s.phaseIdx, 0)),
                        Ev("file-reading", s.phaseIdx, s.dynIdx)),
                   UpdPhases, "read_call")


----------------------------------------------------------------------------
\* writeFile / storage.deleteFile / storage.createMessage: issue the storage call
StartWrite(s, wsite, path, content) ==
    [s EXCEPT !.pc = "write", !.wsite = wsite, !.wpath = path, !.text = content,
              !.wab = s.aborted]

CreateMessage(s, ret) == [s EXCEPT !.pc = "msg", !.ret = ret]

\* actionsLog entry: <<action, path>>
NotRead(a) == a[1] # "read"

\* Variant: the change list names every logged action
ChangeListAll(log) == log

\* changeList of the quick-change summary: the logged actions but the reads
ChangeList(log) == SelectSeq(log, NotRead)

\* planPhase, agentic loop: the summary message of a quick change
AgentDone(s) == CreateMessage([s EXCEPT !.summary = ChangeList(s.log)], "agent_done")

\* planPhase, agentic loop: the end of a step, the action is logged
AgentNext(s) == [s EXCEPT !.step = @ + 1, !.log = Append(@, <<s.act, s.wpath>>)]

\* planPhase, agentic loop: top of the step loop
AgentLoop(s) ==
    IF s.step >= MAX_AGENTIC_STEPS THEN AgentDone(s)
    ELSE IF s.aborted THEN TopCatch(s, TRUE)
    ELSE Persist(Emit(s, Ev("thinking", 0, 0)), NoUpd, "step_call")

\* planPhase, agentic loop: the step's JSON has been parsed
AgentStep(s, resp) ==
    IF resp.t = "bad" THEN AgentDone(s)
    ELSE IF resp.text = "done" THEN AgentDone(s)
    ELSE LET badge == IF resp.text = "read" THEN "reading"
                      ELSE IF resp.text = "update" THEN "updating"
                      ELSE IF resp.text = "create" THEN "generating"
                      ELSE IF resp.text = "delete" THEN "deleting" ELSE "pending"
         IN Persist(Emit([s EXCEPT !.phases[1].files =
                                       Append(@, [path |-> resp.list[1], status |-> badge]),
                                   !.fileIdx = s.dynIdx, !.dynIdx = @ + 1,
                                   !.act = resp.text, !.wpath = resp.list[1]],
                         Ev("dynamic-file", 1, 0)),
                    UpdPhases, "agent_act")

\* planPhase, agentic loop: the branch of the chosen action, up to its await
AgentAct(s) ==
    IF s.act = "read"
    THEN Persist(SetFile(Emit(s, Ev("file-reading", 1, s.fileIdx)), 1, s.fileIdx, "reading"),
                 UpdPhases, "aread_go")
    ELSE IF s.act = "update"
    THEN Persist(SetFile(Emit(s, Ev("file-updating", 1, s.fileIdx)), 1, s.fileIdx, "updating"),
                 UpdPhases, "aupdate_go")
    ELSE IF s.act = "create"
    THEN Persist(SetFile(Emit(s, Ev("file-generating", 1, s.fileIdx)), 1, s.fileIdx, "generating"),
                 UpdPhases, "acreate_go")
    ELSE IF s.act = "delete"
    THEN Persist(SetFile(Emit(s, Ev("file-deleting", 1, s.fileIdx)), 1, s.fileIdx, "deleting"),
                 UpdPhases, "adelete_go")
    ELSE AgentLoop(AgentNext(s))

\* planPhase, agentic loop: an action ended with FileState status st
AgentActed(s, st, evt) ==
    Persist(Emit(SetFile(s, 1, s.fileIdx, st), Ev(evt, 1, s.fileIdx)), UpdPhases, "agent_next")

\* planPhase: the planning result has been parsed
PlanResult(s, resp) ==
    IF resp.t = "bad" THEN TopCatch(s, FALSE)
    ELSE IF resp.t = "conversation" THEN CreateMessage(s, "conv")
    ELSE IF resp.t = "quick-change"
    THEN Persist(Emit([s EXCEPT !.plan = [kind |-> "quick", phases |-> << <<>> >>],
                                !.phases = <<[status |-> "active", files |-> <<>>]>>,
                                !.step = 0, !.dynIdx = 1],
                      Ev("quick-change-start", 0, 0)),
                 UpdAll("building"), "agent_loop")
    ELSE IF Len(resp.phases) = 0 \/ \A k \in 1..Len(resp.phases) : Len(resp.phases[k]) = 0
    THEN TopCatch(s, FALSE)
    ELSE LET plan == [kind |-> "build", phases |-> resp.phases]
         IN CreateMessage([s EXCEPT !.plan = plan, !.phases = PendingPhases(plan)], "plan_msg")

\* Variant: a cancel decision at the approval gate is taken for approval
AfterApprovalAlways(s, action, hasInstructions) ==
    LET t == [s EXCEPT !.pc = "", !.approvalResolve = FALSE,
                       !.gateCancel = (action = "cancel")] IN
    IF action = "edit" /\ hasInstructions
    THEN CallAI(Emit(t, Ev("thinking", 0, 0)), "edit")
    ELSE Persist(Emit(t, Ev("plan-approved", 0, 0)), UpdStatus("building"), "exec")

\* planPhase: the approval promise resolved with result; gateCancel keeps
\* that the decision was cancel
AfterApproval(s, action, hasInstructions) ==
    LET t == [s EXCEPT !.pc = "", !.approvalResolve = FALSE,
                       !.gateCancel = (action = "cancel")] IN
    IF action = "cancel"
    THEN Persist(Emit(t, Ev("build-error", 0, 0)), UpdStatus("cancelled"), "return")
    ELSE IF action = "edit" /\ hasInstructions
    THEN CallAI(Emit(t, Ev("thinking", 0, 0)), "edit")
    ELSE Persist(Emit(t, Ev("plan-approved", 0, 0)), UpdStatus("building"), "exec")

\* planPhase: the revised plan has been parsed
EditResult(s, resp) ==
    IF resp.t = "bad" THEN TopCatch(s, FALSE)
    ELSE IF resp.t = "build"
    THEN LET plan == [kind |-> "build", phases |-> resp.phases]
         IN Persist(Emit([s EXCEPT !.plan = plan, !.phases = PendingPhases(plan)],
                         Ev("plan-ready", 0, 0)),
                    UpdAll(""), "approved")
    ELSE Persist(Emit(s, Ev("plan-approved", 0, 0)), UpdStatus("building"), "exec")

\* callAI returned fullText to its call site
AIReturn(s, resp) ==
    CASE s.site = "plan" -> PlanResult(s, resp)
      [] s.site = "edit" -> EditResult(s, resp)
      [] s.site = "readcheck" ->
            ReadLoop([s EXCEPT !.reads = IF resp.t = "list" THEN resp.list ELSE <<>>])
      [] s.site = "read" ->
            Persist(Emit(SetFile(s, s.phaseIdx, s.fileIdx, "read"),
                         Ev("file-read", s.phaseIdx, s.fileIdx)),
                    UpdPhases, "read_next")
      [] s.site = "file" ->
            StartWrite(s, "file", s.plan.phases[s.phaseIdx][s.fileIdx], resp.text)
      [] s.site = "review" ->
            FixLoop([s EXCEPT !.fixes = IF resp.t = "list" THEN resp.list ELSE <<>>])
      [] s.site = "fix" -> StartWrite(s, "fix", s.plan.phases[s.fixP][s.fixF], resp.text)
      [] s.site = "summary" -> CreateMessage(s, "summary")
      [] s.site = "step" -> AgentStep(s, resp)
      [] s.site = "aread" -> AgentActed(s, "read", "file-read")
      [] s.site = "aupdate" -> StartWrite(s, "aupdate", s.wpath, resp.text)
      [] s.site = "acreate" -> StartWrite(s, "acreate", s.wpath, resp.text)

\* Variant: a failed review call is thrown on to start()/resume()
AIFailureFatal(s) ==
    CASE s.site \in {"readcheck", "read"} -> FileLoop([s EXCEPT !.fileIdx = 1])
      [] s.site = "file" -> FileError(s)
      [] s.site = "fix" -> FixError(s)
      [] OTHER -> TopCatch(s, FALSE)

\* callAI threw an error other than "Build cancelled" to its call site
AIFailure(s) ==
    CASE s.site \in {"readcheck", "read"} -> FileLoop([s EXCEPT !.fileIdx = 1])
      [] s.site = "file" -> FileError(s)
      [] s.site = "review" -> PhaseComplete(s)
      [] s.site = "fix" -> FixError(s)
      [] OTHER -> TopCatch(s, FALSE)

\* writeFile returned to its call site
WriteReturn(s) ==
    CASE s.wsite = "file" ->
            Persist(Emit(SetFile(s, s.phaseIdx, s.fileIdx, "created"),
                         Ev("file-created", s.phaseIdx, s.fileIdx)),
                    UpdPhases, "file_next")
      [] s.wsite = "fix" ->
            Persist(Emit(SetFile(s, s.fixP, s.fixF, "updated"),
                         Ev("file-updated", s.fixP, s.fixF)),
                    UpdPhases, "fix_next")
      [] s.wsite = "aupdate" -> AgentActed(s, "updated", "file-updated")
      [] s.wsite = "acreate" -> AgentActed(s, "created", "file-created")

\* Variant: a failed write is taken for a successful one
WriteFailureIgnored(s) == WriteReturn(s)

\* writeFile threw to its call site
WriteFailure(s) ==
    CASE s.wsite = "file" -> FileError(s)
      [] s.wsite = "fix" -> FixError(s)
      [] OTHER -> TopCatch(s, FALSE)

\* this.fileMemory.size > 0
MemNonEmpty(s) == \E p \in Paths : s.mem[p] # Absent

\* The code that follows updateBuildState, by the place that awaited it
AfterPersist(s) ==
    CASE s.ret = "plan_call" -> CallAI(s, "plan")
      [] s.ret = "await_approval" -> [s EXCEPT !.pc = "approval", !.approvalResolve = TRUE]
      [] s.ret = "approved" ->
            Persist(Emit(s, Ev("plan-approved", 0, 0)), UpdStatus("building"), "exec")
      [] s.ret = "exec" -> PhaseLoop(s, 1)
      [] s.ret = "phase_started" ->
            LET t == [s EXCEPT !.dynIdx = Len(s.plan.phases[s.phaseIdx]) + 1] IN
            IF MemNonEmpty(s)
            THEN Persist(Emit(t, Ev("thinking", 0, 0)), NoUpd, "readcheck_call")
            ELSE FileLoop([t EXCEPT !.fileIdx = 1])
      [] s.ret = "readcheck_call" -> CallAI(s, "readcheck")
      [] s.ret = "read_call" -> CallAI(s, "read")
      [] s.ret = "read_next" -> ReadLoop(s)
      [] s.ret = "file_call" -> CallAI(s, "file")
      [] s.ret = "file_next" -> FileLoop([s EXCEPT !.fileIdx = @ + 1])
      [] s.ret = "file_suspend" ->
            [s EXCEPT !.pc = "fileerr", !.pendingFileError = TRUE,
                      !.fileErrorResolve = TRUE, !.timer = TRUE]
      [] s.ret = "review_call" ->
            IF \E j \in 1..Len(s.plan.phases[s.phaseIdx]) :
                   s.mem[s.plan.phases[s.phaseIdx][j]] # Absent
            THEN CallAI(s, "review")
            ELSE PhaseComplete(s)
      [] s.ret = "fix_call" -> CallAI(s, "fix")
      [] s.ret = "fix_next" -> FixLoop(s)
      [] s.ret = "phase_next" -> PhaseLoop(s, s.phaseIdx + 1)
      [] s.ret = "summary_call" -> CallAI(s, "summary")
      [] s.ret = "agent_loop" -> AgentLoop(s)
      [] s.ret = "step_call" -> CallAI(s, "step")
      [] s.ret = "agent_act" -> AgentAct(s)
      [] s.ret = "aread_go" ->
            IF s.mem[s.wpath] \notin {Absent, ""} THEN CallAI(s, "aread")
            ELSE AgentActed(s, "read", "file-read")
      [] s.ret = "aupdate_go" ->
            IF s.mem[s.wpath] \notin {Absent, ""} THEN CallAI(s, "aupdate")
            ELSE AgentActed(s, "error", "file-error")
      [] s.ret = "acreate_go" -> CallAI(s, "acreate")
      [] s.ret = "adelete_go" ->
            IF s.ids[s.wpath] # 0 THEN [s EXCEPT !.pc = "delete", !.wab = s.aborted]
            ELSE AgentActed(s, "deleted", "file-deleted")
      [] s.ret = "agent_next" -> AgentLoop(AgentNext(s))
      [] s.ret = "return" -> [s EXCEPT !.pc = "done"]

\* Variant: the conversational reply is emitted without recording a status
AfterMessageNoStatus(s) ==
    CASE s.ret = "conv" ->
            Persist(Emit(s, Ev("conversation-response", 0, 0)), NoUpd, "return")
      [] s.ret = "plan_msg" ->
            Persist(Emit(s, Ev("plan-ready", 0, 0)), UpdAll("awaiting-approval"), "await_approval")
      [] s.ret \in {"summary", "agent_done"} ->
            Persist(Emit(s, Ev("build-complete", 0, 0)), UpdStatus("complete"), "return")

\* The code that follows storage.createMessage, by the place that awaited it;
\* msgs counts the assistant messages the run has stored
AfterMessage(s) ==
    CASE s.ret = "conv" ->
            Persist(Emit(s, Ev("conversation-response", 0, 0)), UpdStatus("complete"), "return")
      [] s.ret = "plan_msg" ->
            Persist(Emit(s, Ev("plan-ready", 0, 0)), UpdAll("awaiting-approval"), "await_approval")
      [] s.ret \in {"summary", "agent_done"} ->
            Persist(Emit(s, Ev("build-complete", 0, 0)), UpdStatus("complete"), "return")


----------------------------------------------------------------------------
\* History bookkeeping shared by the actions
\* inp: what the environment handed to the step (a gateway or File Store
\* rejection, a file-error decision, the timeout)
NoLast == [r |-> 0, build |-> 0, aborted |-> FALSE, evs |-> <<>>, fs |-> NoFs, wst |-> "",
           inp |-> "", err |-> NoErr]

Progress(evs) == {e \in RANGE(evs) : e.type \in {"file-created", "phase-complete"}}

NoSub == [state |-> "none", build |-> 0, runner |-> 0, live |-> FALSE,
          snap |-> <<>>, status |-> "", durable |-> "", done |-> FALSE,
          before |-> {}, after |-> {}, got |-> {}]

\* A runner step ends in record res: deliver its events (emitter.emit calls
\* every registered listener), run the finally block when the run is over
Commit(r, res) ==
    LET b == runners[r].build
        over == res.pc = "done"
    IN /\ runners' = [runners EXCEPT ![r] =
                         IF over THEN IdleRunner
                         ELSE [res EXCEPT !.evs = <<>>, !.fs = NoFs, !.wst = "", !.inp = "",
                                          !.raw = NoMsg, !.err = NoErr,
                                          !.wab = res.pc \in {"write", "delete"} /\ res.wab]]
       /\ activeRunners' = IF over THEN [activeRunners EXCEPT ![b] = 0] ELSE activeRunners
       /\ emitted' = [emitted EXCEPT ![b] = @ \cup Progress(res.evs)]
       /\ subs' = [i \in SubIds |->
                     LET u == [subs[i] EXCEPT
                                  !.after = IF subs[i].state = "open" /\ subs[i].build = b
                                            THEN @ \cup Progress(res.evs) ELSE @]
                     IN IF u.state = "open" /\ u.runner = r
                        THEN [u EXCEPT !.got = @ \cup Progress(res.evs),
                                       !.runner = IF over THEN 0 ELSE r]
                        ELSE u]
       /\ last' = [r |-> r, build |-> b, aborted |-> runners[r].aborted,
                   evs |-> res.evs, fs |-> res.fs, wst |-> res.wst, inp |-> res.inp,
                   err |-> res.err]

ReqVars == <<startReq, cancelReq, resumeReq, approveReq>>

----------------------------------------------------------------------------
\* BuildRunner steps

\* start()/resume(): storage.getBuild returned
GetBuild(r) ==
    LET s == runners[r]
        build == builds[s.build]
    IN /\ s.pc = "getBuild"
       /\ Commit(r, IF s.kind = "start" THEN [s EXCEPT !.pc = "load"]
                    ELSE [s EXCEPT !.pc = "load", !.plan = build.plan,
                                   !.phases = build.phases, !.persisted = build.phases,
                                   !.mem = build.mem])
       /\ UNCHANGED <<builds, files, nextFileId, cancelled, ReqVars>>

\* The path -> row choices loadExistingFiles can end with: for every path
\* a stored non-folder row with content, when there is one
LoadChoices ==
    {sel \in [Paths -> 0..MaxFileId] :
        \A p \in Paths :
            IF \E id \in FileIds : files[id].path = p /\ files[id].content \notin {Absent, ""}
            THEN sel[p] # 0 /\ files[sel[p]].path = p /\ files[sel[p]].content \notin {Absent, ""}
            ELSE sel[p] = 0}

\* Variant: resume() goes on into planPhase as start() does
AfterLoadReplan(t) ==
    Persist(Emit(t, Ev("planning", 0, 0)), UpdStatus("planning"), "plan_call")

\* start() goes on into planPhase; resume() throws without a plan, else
\* emits plan-approved, persists building and goes on into executePhases
AfterLoad(t) ==
    IF t.kind = "start"
    THEN Persist(Emit(t, Ev("planning", 0, 0)), UpdStatus("planning"), "plan_call")
    ELSE IF t.plan = NoPlan THEN TopCatch(t, FALSE)
    ELSE Persist(Emit(t, Ev("plan-approved", 0, 0)), UpdStatus("building"), "exec")

\* loadExistingFiles returned
LoadExistingFiles(r) ==
    LET s == runners[r] IN
    /\ s.pc = "load"
    /\ \E sel \in LoadChoices :
          LET t == [s EXCEPT !.mem = [p \in Paths |-> IF sel[p] # 0 THEN files[sel[p]].content
                                                       ELSE s.mem[p]],
                             !.ids = [p \in Paths |-> sel[p]]]
          IN Commit(r, AfterLoad(t))
    /\ UNCHANGED <<builds, files, nextFileId, cancelled, ReqVars>>

\* storage.updateBuild(buildId, updates) as updateBuildState issues it
ApplyUpdate(build, s) ==
    [status |-> IF s.upd.status # "" THEN s.upd.status ELSE build.status,
     plan |-> IF s.upd.plan THEN s.plan ELSE build.plan,
     phases |-> IF s.upd.phases THEN s.phases ELSE build.phases,
     mem |-> IF MemNonEmpty(s) THEN s.mem ELSE build.mem]

\* updateBuildState returned
UpdateBuildState(r) ==
    LET s == runners[r] IN
    /\ s.pc = "persist"
    /\ builds' = [builds EXCEPT ![s.build] = ApplyUpdate(@, s)]
    /\ Commit(r, AfterPersist([s EXCEPT !.wst = s.upd.status]))
    /\ UNCHANGED <<files, nextFileId, cancelled, ReqVars>>

\* storage.createMessage returned
CreateMessageDone(r) ==
    LET s == runners[r] IN
    /\ s.pc = "msg"
    /\ Commit(r, AfterMessage([s EXCEPT !.msgs = @ + 1]))
    /\ UNCHANGED <<builds, files, nextFileId, cancelled, ReqVars>>

\* callAI is over: its locals (attempt, cont, fullText) are gone
EndCall(s) == [s EXCEPT !.attempt = 0, !.cont = 0, !.resp = NoResp]

\* callAI: the gateway request returned text with a finish reason
CallAIOk(r, resp, finish) ==
    LET s == runners[r] IN
    /\ s.pc = "ai"
    /\ Commit(r, Input(IF finish = "length" /\ NonEmptyText(resp)
                       THEN IF s.aborted THEN AIReturn(EndCall(s), Truncated(resp))
                            ELSE [s EXCEPT !.pc = "aicont", !.cont = 0, !.resp = resp]
                       ELSE AIReturn(EndCall(s), resp),
                       "text"))
    /\ UNCHANGED <<builds, files, nextFileId, cancelled, ReqVars>>

\* callAI: a continuation request returned
CallAIContinue(r, finish) ==
    LET s == runners[r] IN
    /\ s.pc = "aicont"
    /\ Commit(r, Input(IF finish # "length" THEN AIReturn(EndCall(s), s.resp)
                       ELSE IF s.cont + 1 < MAX_CONTINUATIONS /\ ~s.aborted
                            THEN [s EXCEPT !.cont = @ + 1]
                            ELSE AIReturn(EndCall(s), Truncated(s.resp)),
                       "text"))
    /\ UNCHANGED <<builds, files, nextFileId, cancelled, ReqVars>>

\* callAI: the gateway request (or a continuation) rejected with message e
CallAIFailWith(r, e) ==
    LET s == runners[r]
        u == [EndCall(s) EXCEPT !.raw = e]
    IN /\ s.pc \in {"ai", "aicont"}
       /\ Commit(r, Input(IF s.aborted THEN AIFailure(u)
                          ELSE IF s.attempt < MAX_RETRIES
                               THEN [s EXCEPT !.pc = "delay", !.cont = 0, !.resp = NoResp]
                          ELSE AIFailure(u),
                          "reject"))
       /\ UNCHANGED <<builds, files, nextFileId, cancelled, ReqVars>>

\* callAI: the gateway request (or a continuation) rejected
CallAIFail(r) == CallAIFailWith(r, GenericError)

\* callAI: the backoff delay elapsed, next attempt
RetryDelay(r) ==
    LET s == runners[r] IN
    /\ s.pc = "delay"
    /\ Commit(r, IF s.aborted THEN TopCatch(EndCall(s), TRUE)
                 ELSE [s EXCEPT !.pc = "ai", !.attempt = @ + 1])
    /\ UNCHANGED <<builds, files, nextFileId, cancelled, ReqVars>>


\* writeFile: storage.updateFile / storage.createFile returned (ok) or threw
\* an error with message e
WriteFileWith(r, ok, e) ==
    LET s == runners[r]
        id == s.ids[s.wpath]
        row == [path |-> s.wpath, content |-> s.text]
        t == [s EXCEPT !.mem[s.wpath] = s.text]
    IN /\ s.pc = "write"
       /\ IF ~ok
          THEN /\ Commit(r, Input(WriteFailure([s EXCEPT !.raw = e]), "reject"))
               /\ UNCHANGED <<files, nextFileId>>
          ELSE IF id # 0
          THEN IF files[id] # NoFile
               THEN /\ files' = [files EXCEPT ![id] = row]
                    /\ Commit(r, WriteReturn([t EXCEPT !.fs = [op |-> "update", path |-> s.wpath, id |-> id, late |-> s.wab]]))
                    /\ UNCHANGED nextFileId
               ELSE /\ Commit(r, Input(WriteFailure(t), "reject"))
                    /\ UNCHANGED <<files, nextFileId>>
          ELSE /\ nextFileId <= MaxFileId
               /\ files' = [files EXCEPT ![nextFileId] = row]
               /\ nextFileId' = nextFileId + 1
               /\ Commit(r, WriteReturn([t EXCEPT !.ids[s.wpath] = nextFileId,
                                                  !.fs = [op |-> "create", path |-> s.wpath,
                                                          id |-> nextFileId, late |-> s.wab]]))
       /\ UNCHANGED <<builds, cancelled, ReqVars>>

\* writeFile: storage.updateFile / storage.createFile returned (ok) or threw
WriteFile(r, ok) == WriteFileWith(r, ok, GenericError)

\* agentic delete: storage.deleteFile returned (ok) or threw
DeleteFile(r, ok) ==
    LET s == runners[r]
        id == s.ids[s.wpath]
    IN /\ s.pc = "delete"
       /\ IF ok
          THEN /\ files' = [files EXCEPT ![id] = NoFile]
               /\ Commit(r, AgentActed([s EXCEPT !.mem[s.wpath] = Absent, !.ids[s.wpath] = 0,
                                                 !.fs = [op |-> "delete", path |-> s.wpath,
                                                         id |-> id, late |-> s.wab]],
                                       "deleted", "file-deleted"))
          ELSE /\ Commit(r, Input(TopCatch(s, FALSE), "reject"))
               /\ UNCHANGED files
       /\ UNCHANGED <<builds, nextFileId, cancelled, ReqVars>>

\* The 5 minute timer of the pending file-error suspension fires
TimerFire(r) ==
    LET s == runners[r] IN
    /\ s.pc = "fileerr"
    /\ s.timer
    /\ Commit(r, Input(AfterFileDecision([s EXCEPT !.fileErrorResolve = FALSE,
                                                    !.timer = FALSE],
                                         "skip"),
                       "timeout"))
    /\ UNCHANGED <<builds, files, nextFileId, cancelled, ReqVars>>

\* The timer of an earlier suspension, resolved by a decision, fires;
\* more: timers of other earlier suspensions are still outstanding
StaleTimerFire(r, more) ==
    LET s == runners[r] IN
    /\ s.pc # "idle"
    /\ s.staleTimer
    /\ Commit(r, [s EXCEPT !.fileErrorResolve = FALSE, !.pendingFileError = FALSE,
                           !.staleTimer = more])
    /\ UNCHANGED <<builds, files, nextFileId, cancelled, ReqVars>>


----------------------------------------------------------------------------
\* HTTP endpoints (routes.ts).  A handler step is the completion of the
\* storage call it awaits plus the code up to its next await.

Created == {b \in BuildIds : builds[b].status # "none"}

FreeRunners == {r \in RunnerIds : runners[r].pc = "idle"}
FreeRunner == CHOOSE r \in FreeRunners : \A q \in FreeRunners : r <= q

\* storage.getActiveBuild(sessionId): the latest build of the session whose
\* status is not terminal, 0 when there is none
GetActiveBuild ==
    IF \E b \in Created : builds[b].status \in NonTerminal
    THEN CHOOSE b \in Created :
            /\ builds[b].status \in NonTerminal
            /\ \A c \in Created : builds[c].status \in NonTerminal => c <= b
    ELSE 0

\* POST /api/sessions/:id/builds, up to the active-build check
StartCheck(limit) ==
    /\ Cardinality(Created) + startReq < limit
    /\ GetActiveBuild = 0
    /\ startReq' = startReq + 1
    /\ last' = NoLast
    /\ UNCHANGED <<builds, files, nextFileId, runners, activeRunners, cancelReq, resumeReq,
                   approveReq, subs, emitted, cancelled>>

\* POST /api/sessions/:id/builds: createBuild returned, the runner is launched
StartCreate ==
    LET b == Cardinality(Created) + 1 IN
    /\ startReq > 0
    /\ FreeRunners # {}
    /\ builds' = [builds EXCEPT ![b] = [NoBuild EXCEPT !.status = "planning"]]
    /\ runners' = [runners EXCEPT ![FreeRunner] = NewRunner(b, "start")]
    /\ activeRunners' = [activeRunners EXCEPT ![b] = FreeRunner]
    /\ startReq' = startReq - 1
    /\ last' = NoLast
    /\ UNCHANGED <<files, nextFileId, cancelReq, resumeReq, approveReq, subs, emitted,
                   cancelled>>

\* POST /api/builds/:id/cancel: getBuild returned; runner.cancel() when a
\* runner is registered; updateBuild is issued
CancelRequest(b) ==
    LET r == activeRunners[b] IN
    /\ b \in Created
    /\ ~cancelReq[b]
    /\ cancelReq' = [cancelReq EXCEPT ![b] = TRUE]
    /\ IF r # 0
       THEN /\ runners' = [runners EXCEPT ![r].aborted = TRUE]
            /\ activeRunners' = [activeRunners EXCEPT ![b] = 0]
            /\ cancelled' = [cancelled EXCEPT ![b] = TRUE]
       ELSE UNCHANGED <<runners, activeRunners, cancelled>>
    /\ last' = NoLast
    /\ UNCHANGED <<builds, files, nextFileId, startReq, resumeReq, approveReq, subs, emitted>>

\* POST /api/builds/:id/cancel: updateBuild({status: "cancelled"}) returned
CancelWrite(b) ==
    /\ cancelReq[b]
    /\ builds' = [builds EXCEPT ![b].status = "cancelled"]
    /\ cancelReq' = [cancelReq EXCEPT ![b] = FALSE]
    /\ last' = NoLast
    /\ UNCHANGED <<files, nextFileId, runners, activeRunners, startReq, resumeReq,
                   approveReq, subs, emitted, cancelled>>

\* The statuses POST /api/builds/:id/resume accepts
Resumable == {"error", "cancelled"}

\* POST /api/builds/:id/resume: getBuild returned; the request is answered
\* 400 when the status check fails, else updateBuild is issued
ResumeRequestAny(b) ==
    /\ b \in Created
    /\ ~resumeReq[b]
    /\ resumeReq' = [resumeReq EXCEPT ![b] = TRUE]
    /\ cancelled' = [cancelled EXCEPT ![b] = FALSE]
    /\ last' = NoLast
    /\ UNCHANGED <<builds, files, nextFileId, runners, activeRunners, startReq, cancelReq,
                   approveReq, subs, emitted>>

ResumeRequest(b) ==
    /\ b \in Created
    /\ ~resumeReq[b]
    /\ IF builds[b].status \in Resumable
       THEN /\ resumeReq' = [resumeReq EXCEPT ![b] = TRUE]
            /\ cancelled' = [cancelled EXCEPT ![b] = FALSE]
            /\ last' = NoLast
       ELSE /\ last' = [NoLast EXCEPT !.build = b, !.inp = "rejected"]
            /\ UNCHANGED <<resumeReq, cancelled>>
    /\ UNCHANGED <<builds, files, nextFileId, runners, activeRunners, startReq, cancelReq,
                   approveReq, subs, emitted>>

\* POST /api/builds/:id/resume: updateBuild({status: "building"}) returned,
\* a new BuildRunner is registered and resume() is launched
ResumeRun(b) ==
    /\ resumeReq[b]
    /\ FreeRunners # {}
    /\ builds' = [builds EXCEPT ![b].status = "building"]
    /\ runners' = [runners EXCEPT ![FreeRunner] = NewRunner(b, "resume")]
    /\ activeRunners' = [activeRunners EXCEPT ![b] = FreeRunner]
    /\ resumeReq' = [resumeReq EXCEPT ![b] = FALSE]
    /\ last' = NoLast
    /\ UNCHANGED <<files, nextFileId, startReq, cancelReq, approveReq, subs, emitted,
                   cancelled>>

\* POST /api/builds/:id/approve with a registered runner: resolveApproval
ApproveLive(b, action, hasInstructions) ==
    LET r == activeRunners[b] IN
    /\ b \in Created
    /\ r # 0
    /\ runners[r].approvalResolve
    /\ Commit(r, AfterApproval(runners[r], action, hasInstructions))
    /\ UNCHANGED <<builds, files, nextFileId, cancelled, ReqVars>>

\* POST /api/builds/:id/approve without a registered runner: the durable
\* record is updated directly
ApproveDirect(b, action) ==
    /\ b \in Created
    /\ activeRunners[b] = 0
    /\ approveReq[b] = ""
    /\ action \in {"cancel", "approve"}
    /\ approveReq' = [approveReq EXCEPT ![b] = IF action = "cancel" THEN "cancelled"
                                                ELSE "building"]
    /\ last' = NoLast
    /\ UNCHANGED <<builds, files, nextFileId, runners, activeRunners, startReq, cancelReq,
                   resumeReq, subs, emitted, cancelled>>

\* POST /api/builds/:id/approve: the direct updateBuild returned
ApproveWrite(b) ==
    /\ approveReq[b] # ""
    /\ builds' = [builds EXCEPT ![b].status = approveReq[b]]
    /\ approveReq' = [approveReq EXCEPT ![b] = ""]
    /\ last' = NoLast
    /\ UNCHANGED <<files, nextFileId, runners, activeRunners, startReq, cancelReq,
                   resumeReq, subs, emitted, cancelled>>

\* POST /api/builds/:id/file-error-decision: resolveFileError(decision)
FileErrorDecision(b, decision) ==
    LET r == activeRunners[b] IN
    /\ b \in Created
    /\ r # 0
    /\ runners[r].fileErrorResolve
    /\ Commit(r, Input(AfterFileDecision([runners[r] EXCEPT !.fileErrorResolve = FALSE,
                                                            !.timer = FALSE,
                                                            !.staleTimer = TRUE],
                                         decision),
                       decision))
    /\ UNCHANGED <<builds, files, nextFileId, cancelled, ReqVars>>

\* BuildRunner.getSnapshot().phases, else the durable record's
SnapshotPhases(b) ==
    IF activeRunners[b] # 0 THEN runners[activeRunners[b]].phases ELSE builds[b].phases

\* BuildRunner.getSnapshot().status, else the durable record's
SnapshotStatus(b) ==
    IF activeRunners[b] # 0 THEN "building" ELSE builds[b].status

\* Variant: the stream stays open although no runner is registered
SubscribeOpen(i, b) ==
    /\ b \in Created
    /\ subs[i].state = "none"
    /\ subs' = [subs EXCEPT ![i] =
                   [NoSub EXCEPT !.state = "open", !.build = b,
                                 !.runner = activeRunners[b],
                                 !.live = activeRunners[b] # 0,
                                 !.snap = SnapshotPhases(b),
                                 !.status = SnapshotStatus(b),
                                 !.durable = builds[b].status,
                                 !.before = emitted[b]]]
    /\ last' = NoLast
    /\ UNCHANGED <<builds, files, nextFileId, runners, activeRunners, emitted, cancelled,
                   ReqVars>>

\* GET /api/builds/:id/stream: getBuild returned; the snapshot is written and,
\* with a registered runner, the listener is added; otherwise done is sent
Subscribe(i, b) ==
    /\ b \in Created
    /\ subs[i].state = "none"
    /\ subs' = [subs EXCEPT ![i] =
                   [state |-> IF activeRunners[b] # 0 THEN "open" ELSE "closed",
                    build |-> b, runner |-> activeRunners[b],
                    live |-> activeRunners[b] # 0,
                    snap |-> SnapshotPhases(b),
                    status |-> SnapshotStatus(b), durable |-> builds[b].status,
                    done |-> activeRunners[b] = 0,
                    before |-> emitted[b], after |-> {}, got |-> {}]]
    /\ last' = NoLast
    /\ UNCHANGED <<builds, files, nextFileId, runners, activeRunners, emitted, cancelled,
                   ReqVars>>

\* Variant: the disconnect of the last listener cancels the runner
UnsubscribeCancels(i) ==
    LET r == subs[i].runner IN
    /\ subs[i].state # "none"
    /\ subs' = [subs EXCEPT ![i] = NoSub]
    /\ last' = [NoLast EXCEPT !.build = subs[i].build, !.inp = "close"]
    /\ runners' = IF r # 0 THEN [runners EXCEPT ![r].aborted = TRUE] ELSE runners
    /\ UNCHANGED <<builds, files, nextFileId, activeRunners, emitted, cancelled, ReqVars>>

\* The client disconnects: req.on("close") removes the listener
Unsubscribe(i) ==
    /\ subs[i].state # "none"
    /\ subs' = [subs EXCEPT ![i] = NoSub]
    /\ last' = [NoLast EXCEPT !.build = subs[i].build, !.inp = "close"]
    /\ UNCHANGED <<builds, files, nextFileId, runners, activeRunners, emitted, cancelled,
                   ReqVars>>

----------------------------------------------------------------------------
\* Initial state: no build, no runner, no request; the session's File Store
\* holds the given rows
InitWith(rows) ==
    /\ builds = [b \in BuildIds |-> NoBuild]
    /\ files = [id \in FileIds |-> IF id <= Len(rows) THEN rows[id] ELSE NoFile]
    /\ nextFileId = Len(rows) + 1
    /\ runners = [r \in RunnerIds |-> IdleRunner]
    /\ activeRunners = [b \in BuildIds |-> 0]
    /\ startReq = 0
    /\ cancelReq = [b \in BuildIds |-> FALSE]
    /\ resumeReq = [b \in BuildIds |-> FALSE]
    /\ approveReq = [b \in BuildIds |-> ""]
    /\ subs = [i \in SubIds |-> NoSub]
    /\ emitted = [b \in BuildIds |-> {}]
    /\ cancelled = [b \in BuildIds |-> FALSE]
    /\ last = NoLast

\* What the gateway may answer at the call site the runner waits at.  A
\* revised plan keeps the file layout of the plan it revises; the review of
\* the existing files asks for no extra file; an agentic run is told done
\* from step MaxAgentSteps on.
PhasedPlans == {BuildResp(<< <<"a", "b">> >>), BuildResp(<< <<"a">>, <<"b">> >>)}

StepResp(action, path) == Resp("step", <<>>, <<path>>, action)

StepResps(s, paths) ==
    IF s.step >= MaxAgentSteps THEN {StepResp("done", "")}
    ELSE {StepResp("done", ""), Resp("bad", <<>>, <<>>, "")} \cup
         {StepResp(act, p) : act \in {"read", "update", "create", "delete"}, p \in paths}

Responses(s) ==
    CASE s.site = "plan" -> PhasedPlans \cup {Resp("quick-change", <<>>, <<>>, ""),
                                              Resp("conversation", <<>>, <<>>, ""),
                                              Resp("bad", <<>>, <<>>, "")}
      [] s.site = "edit" -> {BuildResp(s.plan.phases)}
      [] s.site = "readcheck" -> {ListResp(<<>>)}
      [] s.site = "review" -> {ListResp(<<>>), ListResp(<<"a">>), Resp("bad", <<>>, <<>>, "")}
      [] s.site \in {"file", "fix", "aupdate", "acreate"} -> {TextResp("c1")}
      [] s.site = "step" -> StepResps(s, {"a", "b"})
      [] OTHER -> {OkResp}

\* No runner object of build b is executing
Quiet(b) == \A r \in RunnerIds : runners[r].build # b

\* The session's File Store is empty or holds a file b without content
StoredRows == {<<>>, <<[path |-> "b", content |-> ""]>>}

Init == \E rows \in StoredRows : InitWith(rows)

\* One build: a phased plan, a quick change, a conversational reply or an
\* unparseable plan.  The client cancels at any time and resumes the build
\* once its run has ended.
Next ==
    \/ StartCheck(1)
    \/ StartCreate
    \/ \E b \in BuildIds : CancelRequest(b)
    \/ \E b \in BuildIds : CancelWrite(b)
    \/ \E b \in BuildIds : Quiet(b) /\ builds[b].status \in Resumable /\ ResumeRequest(b)
    \/ \E b \in BuildIds : ResumeRun(b)
    \/ \E b \in BuildIds, a \in {"approve", "edit", "cancel"} : ApproveLive(b, a, TRUE)
    \/ \E b \in BuildIds, d \in {"retry", "cancel"} : FileErrorDecision(b, d)
    \/ \E r \in RunnerIds : GetBuild(r)
    \/ \E r \in RunnerIds : LoadExistingFiles(r)
    \/ \E r \in RunnerIds : UpdateBuildState(r)
    \/ \E r \in RunnerIds : CreateMessageDone(r)
    \/ \E r \in RunnerIds : \E resp \in Responses(runners[r]) : CallAIOk(r, resp, "stop")
    \/ \E r \in RunnerIds : CallAIFail(r)
    \/ \E r \in RunnerIds : RetryDelay(r)
    \/ \E r \in RunnerIds, ok \in BOOLEAN : WriteFile(r, ok)
    \/ \E r \in RunnerIds, ok \in BOOLEAN : DeleteFile(r, ok)
    \/ \E r \in RunnerIds : TimerFire(r)

Spec == Init /\ [][Next]_vars

----------------------------------------------------------------------------
\* The builds of a session: conversational or failing plans, so that runs
\* are short; Start, Cancel, Resume and Approve requests in any interleaving

SessionResps(s) ==
    CASE s.site = "plan" -> {Resp("conversation", <<>>, <<>>, ""), Resp("bad", <<>>, <<>>, "")}
      [] OTHER -> {OkResp}

InitSession == InitWith(<<>>)

NextSession ==
    \/ StartCheck(MaxBuilds)
    \/ StartCreate
    \/ \E b \in BuildIds : CancelRequest(b)
    \/ \E b \in BuildIds : CancelWrite(b)
    \/ \E b \in BuildIds : Quiet(b) /\ builds[b].status \in Resumable /\ ResumeRequest(b)
    \/ \E b \in BuildIds : ResumeRun(b)
    \/ \E b \in BuildIds, a \in {"approve", "cancel"} : ApproveDirect(b, a)
    \/ \E b \in BuildIds : ApproveWrite(b)
    \/ \E r \in RunnerIds : GetBuild(r)
    \/ \E r \in RunnerIds : LoadExistingFiles(r)
    \/ \E r \in RunnerIds : UpdateBuildState(r)
    \/ \E r \in RunnerIds : CreateMessageDone(r)
    \/ \E r \in RunnerIds : \E resp \in SessionResps(runners[r]), fin \in {"stop", "length"} :
            CallAIOk(r, resp, fin)
    \/ \E r \in RunnerIds, fin \in {"stop", "length"} : CallAIContinue(r, fin)
    \/ \E r \in RunnerIds : CallAIFail(r)
    \/ \E r \in RunnerIds : RetryDelay(r)

SpecSession == InitSession /\ [][NextSession]_vars

----------------------------------------------------------------------------
\* One build of a one-file plan watched by stream subscribers that connect
\* and disconnect at any time

StreamResps(s) ==
    CASE s.site = "plan" -> {BuildResp(<< <<"a">> >>)}
      [] s.site \in {"readcheck", "review"} -> {ListResp(<<>>)}
      [] s.site \in {"file", "fix"} -> {TextResp("c1")}
      [] OTHER -> {OkResp}

InitStream == InitWith(<<>>)

NextStream ==
    \/ StartCheck(1)
    \/ StartCreate
    \/ \E b \in BuildIds : CancelRequest(b)
    \/ \E b \in BuildIds : CancelWrite(b)
    \/ \E b \in BuildIds : Quiet(b) /\ builds[b].status \in Resumable /\ ResumeRequest(b)
    \/ \E b \in BuildIds : ResumeRun(b)
    \/ \E b \in BuildIds : ApproveLive(b, "approve", FALSE)
    \/ \E b \in BuildIds, d \in {"retry", "skip", "cancel"} : FileErrorDecision(b, d)
    \/ \E i \in SubIds, b \in BuildIds : Subscribe(i, b)
    \/ \E i \in SubIds : Unsubscribe(i)
    \/ \E r \in RunnerIds : GetBuild(r)
    \/ \E r \in RunnerIds : LoadExistingFiles(r)
    \/ \E r \in RunnerIds : UpdateBuildState(r)
    \/ \E r \in RunnerIds : CreateMessageDone(r)
    \/ \E r \in RunnerIds : \E resp \in StreamResps(runners[r]) : CallAIOk(r, resp, "stop")
    \/ \E r \in RunnerIds : CallAIFail(r)
    \/ \E r \in RunnerIds : RetryDelay(r)
    \/ \E r \in RunnerIds, ok \in BOOLEAN : WriteFile(r, ok)
    \/ \E r \in RunnerIds : TimerFire(r)
    \/ \E r \in RunnerIds, more \in BOOLEAN : StaleTimerFire(r, more)

SpecStream == InitStream /\ [][NextStream]_vars

----------------------------------------------------------------------------
\* One build whose plan the client approves or asks to revise; the gateway
\* may answer the planning call and the revision with a plan without files

EditResps(s) ==
    CASE s.site = "plan" -> {BuildResp(<< <<"a">> >>), BuildResp(<<>>), BuildResp(<< <<>> >>)}
      [] s.site = "edit" -> {BuildResp(<< <<"b">> >>), BuildResp(<<>>), BuildResp(<< <<>> >>),
                             Resp("conversation", <<>>, <<>>, ""), Resp("bad", <<>>, <<>>, "")}
      [] s.site \in {"readcheck", "review"} -> {ListResp(<<>>)}
      [] s.site \in {"file", "fix"} -> {TextResp("c1")}
      [] OTHER -> {OkResp}

InitEdit == InitWith(<<>>)

NextEdit ==
    \/ StartCheck(1)
    \/ StartCreate
    \/ \E b \in BuildIds, a \in {"approve", "edit"}, ins \in BOOLEAN : ApproveLive(b, a, ins)
    \/ \E r \in RunnerIds : GetBuild(r)
    \/ \E r \in RunnerIds : LoadExistingFiles(r)
    \/ \E r \in RunnerIds : UpdateBuildState(r)
    \/ \E r \in RunnerIds : CreateMessageDone(r)
    \/ \E r \in RunnerIds : \E resp \in EditResps(runners[r]) : CallAIOk(r, resp, "stop")
    \/ \E r \in RunnerIds : CallAIFail(r)
    \/ \E r \in RunnerIds : RetryDelay(r)
    \/ \E r \in RunnerIds, ok \in BOOLEAN : WriteFile(r, ok)
    \/ \E r \in RunnerIds : TimerFire(r)

SpecEdit == InitEdit /\ [][NextEdit]_vars

----------------------------------------------------------------------------
\* One build of a two-file plan for which no file-error decision is ever
\* posted.  Timers fire and awaited storage calls return: the event loop
\* runs every callback that is due.

TimeoutResps(s) ==
    CASE s.site = "plan" -> {BuildResp(<< <<"a", "b">> >>)}
      [] s.site \in {"readcheck", "review"} -> {ListResp(<<>>)}
      [] s.site \in {"file", "fix"} -> {TextResp("c1")}
      [] OTHER -> {OkResp}

InitTimeout == InitWith(<<>>)

NextTimeout ==
    \/ StartCheck(1)
    \/ StartCreate
    \/ \E b \in BuildIds : CancelRequest(b)
    \/ \E b \in BuildIds : CancelWrite(b)
    \/ \E b \in BuildIds : ApproveLive(b, "approve", FALSE)
    \/ \E r \in RunnerIds : GetBuild(r)
    \/ \E r \in RunnerIds : LoadExistingFiles(r)
    \/ \E r \in RunnerIds : UpdateBuildState(r)
    \/ \E r \in RunnerIds : CreateMessageDone(r)
    \/ \E r \in RunnerIds : \E resp \in TimeoutResps(runners[r]) : CallAIOk(r, resp, "stop")
    \/ \E r \in RunnerIds : CallAIFail(r)
    \/ \E r \in RunnerIds : RetryDelay(r)
    \/ \E r \in RunnerIds, ok \in BOOLEAN : WriteFile(r, ok)
    \/ \E r \in RunnerIds : TimerFire(r)

FairTimeout ==
    \A r \in RunnerIds :
        /\ WF_vars(TimerFire(r))
        /\ WF_vars(RetryDelay(r))
        /\ WF_vars(UpdateBuildState(r))
        /\ WF_vars(CreateMessageDone(r))

SpecTimeout == InitTimeout /\ [][NextTimeout]_vars /\ FairTimeout

\* The same build when, besides, every awaited storage call and gateway
\* request comes back (resolved or rejected); the client's requests are
\* under no obligation
FairCancel ==
    /\ FairTimeout
    /\ \A r \in RunnerIds :
          /\ WF_vars(GetBuild(r))
          /\ WF_vars(LoadExistingFiles(r))
          /\ WF_vars(CallAIFail(r) \/
                     \E resp \in TimeoutResps(runners[r]) : CallAIOk(r, resp, "stop"))
          /\ WF_vars(\E ok \in BOOLEAN : WriteFile(r, ok))
    /\ \A b \in BuildIds : WF_vars(CancelWrite(b))

SpecCancel == InitTimeout /\ [][NextTimeout]_vars /\ FairCancel

----------------------------------------------------------------------------
\* One build of a two-file plan whose file-error suspensions the client
\* answers with any decision value, or not at all; the timer of a suspension
\* that a decision resolved is still armed and fires later

InitDecide == InitWith(<<>>)

NextDecide ==
    \/ StartCheck(1)
    \/ StartCreate
    \/ \E b \in BuildIds : ApproveLive(b, "approve", FALSE)
    \/ \E b \in BuildIds, d \in {"retry", "skip", "later", "cancel"} : FileErrorDecision(b, d)
    \/ \E r \in RunnerIds : GetBuild(r)
    \/ \E r \in RunnerIds : LoadExistingFiles(r)
    \/ \E r \in RunnerIds : UpdateBuildState(r)
    \/ \E r \in RunnerIds : CreateMessageDone(r)
    \/ \E r \in RunnerIds : \E resp \in TimeoutResps(runners[r]) : CallAIOk(r, resp, "stop")
    \/ \E r \in RunnerIds : CallAIFail(r)
    \/ \E r \in RunnerIds : RetryDelay(r)
    \/ \E r \in RunnerIds, ok \in BOOLEAN : WriteFile(r, ok)
    \/ \E r \in RunnerIds : TimerFire(r)
    \/ \E r \in RunnerIds, more \in BOOLEAN : StaleTimerFire(r, more)

SpecDecide == InitDecide /\ [][NextDecide]_vars

----------------------------------------------------------------------------
\* One quick change whose steps the gateway never ends by itself: the first
\* MaxAgentSteps steps choose any action on file a or done, the later ones
\* read file a

AgentResps(s) ==
    CASE s.site = "plan" -> {Resp("quick-change", <<>>, <<>>, "")}
      [] s.site = "step" ->
            IF s.step < MaxAgentSteps
            THEN {StepResp("done", "")} \cup
                 {StepResp(act, "a") : act \in {"read", "update", "create", "delete"}}
            ELSE {StepResp("read", "a")}
      [] s.site \in {"aupdate", "acreate"} -> {TextResp("c1")}
      [] OTHER -> {OkResp}

InitAgent == InitWith(<<>>)

NextAgent ==
    \/ StartCheck(1)
    \/ StartCreate
    \/ \E b \in BuildIds : CancelRequest(b)
    \/ \E b \in BuildIds : CancelWrite(b)
    \/ \E r \in RunnerIds : GetBuild(r)
    \/ \E r \in RunnerIds : LoadExistingFiles(r)
    \/ \E r \in RunnerIds : UpdateBuildState(r)
    \/ \E r \in RunnerIds : CreateMessageDone(r)
    \/ \E r \in RunnerIds : \E resp \in AgentResps(runners[r]) : CallAIOk(r, resp, "stop")
    \/ \E r \in RunnerIds : WriteFile(r, TRUE)
    \/ \E r \in RunnerIds : DeleteFile(r, TRUE)

SpecAgent == InitAgent /\ [][NextAgent]_vars

----------------------------------------------------------------------------
\* One build of a two-phase plan whose gateway and File Store rejections
\* carry any of the messages of RawErrors: empty, plain, with markup, and
\* longer than 300 characters

RawErrors ==
    {<<>>, <<"e">>, <<"<", "b", ">", "e", "<", "/", "b", ">">>, [i \in 1..301 |-> "x"]}

ErrorResps(s) ==
    CASE s.site = "plan" -> {BuildResp(<< <<"a">>, <<"b">> >>), Resp("bad", <<>>, <<>>, "")}
      [] s.site = "readcheck" -> {ListResp(<<>>)}
      [] s.site = "review" -> {ListResp(<<>>), ListResp(<<"a">>)}
      [] s.site \in {"file", "fix"} -> {TextResp("c1")}
      [] OTHER -> {OkResp}

InitErrors == InitWith(<<>>)

NextErrors ==
    \/ StartCheck(1)
    \/ StartCreate
    \/ \E b \in BuildIds : ApproveLive(b, "approve", FALSE)
    \/ \E r \in RunnerIds : GetBuild(r)
    \/ \E r \in RunnerIds : LoadExistingFiles(r)
    \/ \E r \in RunnerIds : UpdateBuildState(r)
    \/ \E r \in RunnerIds : CreateMessageDone(r)
    \/ \E r \in RunnerIds : \E resp \in ErrorResps(runners[r]) : CallAIOk(r, resp, "stop")
    \/ \E r \in RunnerIds, e \in RawErrors : CallAIFailWith(r, e)
    \/ \E r \in RunnerIds : RetryDelay(r)
    \/ \E r \in RunnerIds, ok \in BOOLEAN, e \in RawErrors : WriteFileWith(r, ok, e)
    \/ \E r \in RunnerIds : TimerFire(r)

SpecErrors == InitErrors /\ [][NextErrors]_vars

----------------------------------------------------------------------------
\* Builds that answer conversationally and complete; Cancel and Approve
\* requests arrive only for a build whose durable status is complete.  (A
\* Resume request for such a build fails the status check and a file-error
\* decision finds no registered runner: neither changes anything.)

FinalResps(s) ==
    CASE s.site = "plan" -> {Resp("conversation", <<>>, <<>>, "")}
      [] OTHER -> {OkResp}

InitFinal == InitWith(<<>>)

NextFinal ==
    \/ StartCheck(MaxBuilds)
    \/ StartCreate
    \/ \E b \in BuildIds : builds[b].status = "complete" /\ CancelRequest(b)
    \/ \E b \in BuildIds : CancelWrite(b)
    \/ \E b \in BuildIds, a \in {"approve", "cancel"} :
          builds[b].status = "complete" /\ ApproveDirect(b, a)
    \/ \E b \in BuildIds : ApproveWrite(b)
    \/ \E r \in RunnerIds : GetBuild(r)
    \/ \E r \in RunnerIds : LoadExistingFiles(r)
    \/ \E r \in RunnerIds : UpdateBuildState(r)
    \/ \E r \in RunnerIds : CreateMessageDone(r)
    \/ \E r \in RunnerIds : \E resp \in FinalResps(runners[r]) : CallAIOk(r, resp, "stop")

SpecFinal == InitFinal /\ [][NextFinal]_vars

----------------------------------------------------------------------------
\* One build that answers conversationally or fails to plan; Cancel requests
\* and Resume requests arrive at any time, whatever the durable status

InitResume == InitWith(<<>>)

NextResume ==
    \/ StartCheck(1)
    \/ StartCreate
    \/ \E b \in BuildIds : CancelRequest(b)
    \/ \E b \in BuildIds : CancelWrite(b)
    \/ \E b \in BuildIds : ResumeRequest(b)
    \/ \E b \in BuildIds : ResumeRun(b)
    \/ \E r \in RunnerIds : GetBuild(r)
    \/ \E r \in RunnerIds : LoadExistingFiles(r)
    \/ \E r \in RunnerIds : UpdateBuildState(r)
    \/ \E r \in RunnerIds : CreateMessageDone(r)
    \/ \E r \in RunnerIds : \E resp \in SessionResps(runners[r]) : CallAIOk(r, resp, "stop")

SpecResume == InitResume /\ [][NextResume]_vars

----------------------------------------------------------------------------
\* One build of a one-file plan whose client never approves nor revises the
\* plan: the only decision posted at the approval gate is cancel, and the
\* client resumes the build afterwards

InitGate == InitWith(<<>>)

NextGate ==
    \/ StartCheck(1)
    \/ StartCreate
    \/ \E b \in BuildIds : ApproveLive(b, "cancel", FALSE)
    \/ \E b \in BuildIds : Quiet(b) /\ builds[b].status \in Resumable /\ ResumeRequest(b)
    \/ \E b \in BuildIds : ResumeRun(b)
    \/ \E r \in RunnerIds : GetBuild(r)
    \/ \E r \in RunnerIds : LoadExistingFiles(r)
    \/ \E r \in RunnerIds : UpdateBuildState(r)
    \/ \E r \in RunnerIds : CreateMessageDone(r)
    \/ \E r \in RunnerIds : \E resp \in StreamResps(runners[r]) : CallAIOk(r, resp, "stop")
    \/ \E r \in RunnerIds : CallAIFail(r)
    \/ \E r \in RunnerIds : RetryDelay(r)
    \/ \E r \in RunnerIds, ok \in BOOLEAN : WriteFile(r, ok)
    \/ \E r \in RunnerIds : TimerFire(r)

SpecGate == InitGate /\ [][NextGate]_vars

----------------------------------------------------------------------------
\* One build of a two-file plan whose client posts at the approval gate only
\* decisions that are none of approve, edit with instructions and cancel: an
\* action value the runner does not know, or edit without instructions

OtherDecisions == {<<"other", FALSE>>, <<"other", TRUE>>, <<"edit", FALSE>>}

InitOther == InitWith(<<>>)

NextOther ==
    \/ StartCheck(1)
    \/ StartCreate
    \/ \E b \in BuildIds, d \in OtherDecisions : ApproveLive(b, d[1], d[2])
    \/ \E r \in RunnerIds : GetBuild(r)
    \/ \E r \in RunnerIds : LoadExistingFiles(r)
    \/ \E r \in RunnerIds : UpdateBuildState(r)
    \/ \E r \in RunnerIds : CreateMessageDone(r)
    \/ \E r \in RunnerIds : \E resp \in TimeoutResps(runners[r]) : CallAIOk(r, resp, "stop")
    \/ \E r \in RunnerIds : CallAIFail(r)
    \/ \E r \in RunnerIds : RetryDelay(r)
    \/ \E r \in RunnerIds, ok \in BOOLEAN : WriteFile(r, ok)
    \/ \E r \in RunnerIds : TimerFire(r)

SpecOther == InitOther /\ [][NextOther]_vars

----------------------------------------------------------------------------
\* One build of a one-file plan in a session whose File Store already holds
\* file c: the dependency check may ask to read c, and the client may cancel
\* and resume the build

ReadResps(s) ==
    CASE s.site = "plan" -> {BuildResp(<< <<"a">> >>)}
      [] s.site = "readcheck" -> {ListResp(<<>>), ListResp(<<"c">>)}
      [] s.site = "review" -> {ListResp(<<>>)}
      [] s.site \in {"file", "fix"} -> {TextResp("c1")}
      [] OTHER -> {OkResp}

InitRead == InitWith(<<[path |-> "c", content |-> "c1"]>>)

\* The client stops resuming once a persisted phase has MaxPhaseFiles entries
Resumes(b) ==
    \A p \in DOMAIN builds[b].phases : Len(builds[b].phases[p].files) < MaxPhaseFiles

NextRead ==
    \/ StartCheck(1)
    \/ StartCreate
    \/ \E b \in BuildIds : CancelRequest(b)
    \/ \E b \in BuildIds : CancelWrite(b)
    \/ \E b \in BuildIds :
          Quiet(b) /\ Resumes(b) /\ builds[b].status \in Resumable /\ ResumeRequest(b)
    \/ \E b \in BuildIds : ResumeRun(b)
    \/ \E b \in BuildIds : ApproveLive(b, "approve", FALSE)
    \/ \E r \in RunnerIds : GetBuild(r)
    \/ \E r \in RunnerIds : LoadExistingFiles(r)
    \/ \E r \in RunnerIds : UpdateBuildState(r)
    \/ \E r \in RunnerIds : CreateMessageDone(r)
    \/ \E r \in RunnerIds : \E resp \in ReadResps(runners[r]) : CallAIOk(r, resp, "stop")
    \/ \E r \in RunnerIds : CallAIFail(r)
    \/ \E r \in RunnerIds : RetryDelay(r)
    \/ \E r \in RunnerIds : WriteFile(r, TRUE)

SpecRead == InitRead /\ [][NextRead]_vars

----------------------------------------------------------------------------
\* Properties

\* Positions <<phase, file>> of the FileStates of a PhaseState array that
\* are being generated or updated
InFlightFiles(phases) ==
    UNION {{<<i, j>> : j \in {k \in DOMAIN phases[i].files :
                                  phases[i].files[k].status \in InFlight}} :
           i \in DOMAIN phases}

\* C1: in every reachable state of a build's PhaseState array, in the runner
\* and in the durable record, cancel and resume included, at most one
\* FileState over all phases is generating or updating.
C1_AtMostOneInFlight ==
    /\ \A b \in BuildIds : Cardinality(InFlightFiles(builds[b].phases)) <= 1
    /\ \A r \in RunnerIds : Cardinality(InFlightFiles(runners[r].phases)) <= 1

\* Status of phase p, of file f of phase p, in a PhaseState array ("" when
\* the array has no such entry)
PhaseStatus(phases, p) == IF p \in DOMAIN phases THEN phases[p].status ELSE ""

FileStatus(phases, p, f) ==
    IF p \in DOMAIN phases /\ f \in DOMAIN phases[p].files
    THEN phases[p].files[f].status ELSE ""

\* The durable record of build b records the transition event e announces
Recorded(b, e) ==
    CASE e.type = "plan-ready" -> builds[b].status = "awaiting-approval"
      [] e.type = "build-complete" -> builds[b].status = "complete"
      [] e.type = "phase-start" -> PhaseStatus(builds[b].phases, e.p) = "active"
      [] e.type = "phase-complete" -> PhaseStatus(builds[b].phases, e.p) = "complete"
      [] e.type = "file-generating" -> FileStatus(builds[b].phases, e.p, e.f) = "generating"
      [] e.type = "file-created" -> FileStatus(builds[b].phases, e.p, e.f) \in {"created", "updated"}
      [] e.type = "file-updated" -> FileStatus(builds[b].phases, e.p, e.f) = "updated"
      [] e.type = "file-error" -> FileStatus(builds[b].phases, e.p, e.f) = "error"
      [] OTHER -> TRUE

\* C2: the Build State Store update recording a transition completes before
\* the event of the transition is emitted: when a step of the runner emits
\* an event, the durable record already reflects it.
C2_PersistedBeforeEmitted ==
    \A k \in DOMAIN last.evs : Recorded(last.build, last.evs[k])

\* C3: once Cancel has been invoked for a build with a live runner, and no
\* Resume after it, the durable status the build settles in, when the cancel
\* request and the run are over, is cancelled: no step of the run left
\* complete or error behind.
C3_CancelledIsFinal ==
    \A b \in BuildIds :
        cancelled[b] /\ Quiet(b) /\ ~cancelReq[b] => builds[b].status = "cancelled"

\* C4: after cancel() has set the abort signal a runner performs no File
\* Store create, update or delete: what a generation call in flight returns
\* is dropped, not written.
C4_NoWriteAfterAbort == last.fs.op # "none" => ~last.fs.late

Done == {"created", "updated"}

\* A row of the File Store holds path with content
Stored(path, content) ==
    \E id \in FileIds : files[id] = [path |-> path, content |-> content]

StoredPath(path) == \E id \in FileIds : files[id].path = path

\* C5: when a FileState becomes created or updated in a runner (file loop,
\* fix loop, agentic loop), that very step completed a File Store write of
\* the path with the content the gateway returned; when the status reaches
\* the durable record or is announced by an event, the path is stored.
C5_WriteBeforeStatus ==
    [][/\ \A r \in RunnerIds :
             \A p \in DOMAIN runners'[r].phases :
                \A f \in DOMAIN runners'[r].phases[p].files :
                   (/\ runners[r].pc \notin {"idle", "getBuild"}
                    /\ FileStatus(runners'[r].phases, p, f) \in Done
                    /\ FileStatus(runners[r].phases, p, f) \notin Done)
                   => /\ last'.fs.op \in {"create", "update"}
                      /\ last'.fs.path = runners'[r].phases[p].files[f].path
                      /\ files'[last'.fs.id] = [path |-> last'.fs.path,
                                                content |-> runners[r].text]
       /\ \A b \in BuildIds :
             \A p \in DOMAIN builds'[b].phases :
                \A f \in DOMAIN builds'[b].phases[p].files :
                   (/\ FileStatus(builds'[b].phases, p, f) \in Done
                    /\ FileStatus(builds[b].phases, p, f) \notin Done)
                   => StoredPath(builds'[b].phases[p].files[f].path)
       /\ \A k \in DOMAIN last'.evs :
             last'.evs[k].type \in {"file-created", "file-updated"}
             => \E id \in FileIds :
                   files'[id].path =
                      runners'[last'.r].phases[last'.evs[k].p].files[last'.evs[k].f].path
      ]_vars

\* A fix or an agentic update has just written a file and marked it updated
C5_Witness ==
    /\ last.fs.op = "update"
    /\ \E k \in DOMAIN last.evs : last.evs[k].type = "file-updated"

\* C6: when a FileState becomes deleted in the agentic loop no file with
\* that path remains in the File Store, files stored with empty content and
\* paths the runner holds no id for included.
C6_DeletedIsRemoved ==
    \A k \in DOMAIN last.evs :
        last.evs[k].type = "file-deleted"
        => ~StoredPath(runners[last.r].phases[last.evs[k].p].files[last.evs[k].f].path)

\* A planned file the persisted PhaseState array marks as done: its phase
\* is complete or the file is created/updated
Protected(persisted, p, f) ==
    PhaseStatus(persisted, p) = "complete" \/ FileStatus(persisted, p, f) \in Done

\* The first planned file, in plan order, that the persisted array does not
\* mark as done (<<0, 0>> when there is none)
FirstOpen(plan, persisted) ==
    LET open == {pf \in UNION {{<<p, f>> : f \in DOMAIN plan.phases[p]} : p \in DOMAIN plan.phases} :
                    ~Protected(persisted, pf[1], pf[2])}
    IN IF open = {} THEN <<0, 0>>
       ELSE CHOOSE pf \in open :
               \A q \in open : pf[1] < q[1] \/ (pf[1] = q[1] /\ pf[2] <= q[2])

\* Runner s is in a gateway call made at one of sites, or in the File Store
\* write that follows it
Working(s, sites) ==
    \/ s.pc \in {"ai", "aicont", "delay"} /\ s.site \in sites
    \/ s.pc = "write" /\ s.wsite \in sites

C8_OneActiveBuild ==
    Cardinality({b \in BuildIds : builds[b].status \in NonTerminal}) <= 1

\* pending < active < reviewing < complete
Rank(st) ==
    CASE st = "active" -> 1
      [] st = "reviewing" -> 2
      [] st = "complete" -> 3
      [] OTHER -> 0

\* C9 as stated: within a single run the status of each PhaseState only
\* moves forward in the order pending < active < reviewing < complete.
C9_PhaseForward ==
    [][\A r \in RunnerIds :
          \A p \in (DOMAIN runners[r].phases) \cap (DOMAIN runners'[r].phases) :
             Rank(runners'[r].phases[p].status) >= Rank(runners[r].phases[p].status)
      ]_vars

\* C9, amended: within a single run the status of each PhaseState only moves
\* forward, except that a resumed run re-enters as active a phase that was
\* persisted as reviewing.
C9_PhaseForwardOrReentered ==
    [][\A r \in RunnerIds :
          \A p \in (DOMAIN runners[r].phases) \cap (DOMAIN runners'[r].phases) :
             \/ Rank(runners'[r].phases[p].status) >= Rank(runners[r].phases[p].status)
             \/ /\ runners[r].kind = "resume"
                /\ PhaseStatus(runners[r].persisted, p) = "reviewing"
                /\ runners[r].phases[p].status = "reviewing"
                /\ runners'[r].phases[p].status = "active"
      ]_vars

\* A resumed run has taken a phase persisted as reviewing to complete
C9_Witness ==
    \E r \in RunnerIds : \E p \in DOMAIN runners[r].phases :
        /\ runners[r].kind = "resume"
        /\ PhaseStatus(runners[r].persisted, p) = "reviewing"
        /\ runners[r].phases[p].status = "complete"

\* C10: a subscriber that connects while a runner is live gets a snapshot
\* whose phases reflect every file-created and phase-complete event emitted
\* before, and from then on every event the runner emits.
C10_SnapshotThenEvents ==
    \A i \in SubIds :
        subs[i].live =>
            /\ \A e \in subs[i].before :
                  /\ e.type = "phase-complete" => PhaseStatus(subs[i].snap, e.p) = "complete"
                  /\ e.type = "file-created" =>
                        FileStatus(subs[i].snap, e.p, e.f) \notin {"", "pending"}
            /\ subs[i].runner # 0 => subs[i].after \subseteq subs[i].got

\* C11: for a subscriber that connects while a runner is live the status of
\* the snapshot is the build-wide status the build has at that time.
C11_SnapshotStatus ==
    \A i \in SubIds : subs[i].live => subs[i].status = subs[i].durable

\* C12: a subscriber that finds no registered runner for the build gets the
\* snapshot of the durable Build record, then done, and its stream is closed:
\* it is attached to no runner and receives no event afterwards.
C12_NoRunnerSnapshotDone ==
    [][\A i \in SubIds :
          /\ (subs[i].state = "none" /\ subs'[i].state # "none"
              /\ activeRunners[subs'[i].build] = 0)
             => /\ subs'[i].state = "closed" /\ subs'[i].done
                /\ subs'[i].runner = 0
                /\ subs'[i].snap = builds[subs'[i].build].phases
                /\ subs'[i].status = builds[subs'[i].build].status
          /\ (subs[i].state # "none" /\ ~subs[i].live /\ subs'[i].state # "none")
             => /\ subs'[i].state = "closed" /\ subs'[i].done
                /\ subs'[i].got = {}
      ]_vars

\* A subscriber found no runner for a build that had made progress
C12_Witness ==
    \E i \in SubIds :
        /\ subs[i].state = "closed" /\ subs[i].done /\ ~subs[i].live
        /\ subs[i].snap # <<>>

\* Every phase and every file of a PhaseState array is pending
AllPending(phases) ==
    \A p \in DOMAIN phases :
        /\ phases[p].status = "pending"
        /\ \A f \in DOMAIN phases[p].files : phases[p].files[f].status = "pending"

\* C13: after a cancel decision at the approval gate of a build plan the run
\* performs no File Store operation, no phase or file leaves pending, and
\* the run ends with durable status cancelled.
C13_GateCancel ==
    [][\A r \in RunnerIds :
          runners[r].gateCancel =>
             /\ last'.r = r => last'.fs.op = "none"
             /\ IF runners'[r].pc = "idle"
                THEN /\ builds'[runners[r].build].status = "cancelled"
                     /\ AllPending(builds'[runners[r].build].phases)
                ELSE AllPending(runners'[r].phases)
      ]_vars

\* A run that planned a build has ended by the cancel decision of its gate
C13_Witness ==
    /\ last.r # 0 /\ last.wst = "cancelled" /\ ~last.aborted
    /\ runners[last.r].pc = "idle"
    /\ ~cancelled[last.build]
    /\ builds[last.build].status = "cancelled"
    /\ builds[last.build].phases # <<>>
    /\ AllPending(builds[last.build].phases)

\* The plan has no file in any phase
ZeroFiles(plan) == \A k \in DOMAIN plan.phases : Len(plan.phases[k]) = 0

\* C14: executePhases is never entered with a build plan that has zero files
\* across all phases, and a build with such a plan never ends complete.
C14_NoEmptyExecution ==
    /\ \A r \in RunnerIds :
          (runners[r].plan.kind = "build" /\ runners[r].phaseIdx > 0)
             => ~ZeroFiles(runners[r].plan)
    /\ \A b \in BuildIds :
          (builds[b].plan.kind = "build" /\ builds[b].status = "complete")
             => ~ZeroFiles(builds[b].plan)

\* C15: in the phased file loop the first two rejected gateway attempts of a
\* file are retried; the third marks the file error, emits file-error and,
\* once that is persisted, suspends the runner at the same file.  A retry
\* decision sets the same file to generating again; a successful write then
\* makes it created and the loop moves past it.
C15_ThreeAttemptsThenSuspend ==
    [][\A r \in RunnerIds :
          LET s == runners[r]
              t == runners'[r]
              p == s.phaseIdx
              f == s.fileIdx
          IN last'.r = r =>
             /\ (s.pc = "ai" /\ s.site = "file" /\ ~s.aborted /\ last'.inp = "reject") =>
                   IF s.attempt < MAX_RETRIES
                   THEN t.pc = "delay" /\ t.phases = s.phases /\ last'.evs = <<>>
                   ELSE /\ s.attempt = 2
                        /\ t.phases[p].files[f].status = "error"
                        /\ last'.evs = <<Ev("file-error", p, f)>>
                        /\ t.pc = "persist" /\ t.ret = "file_suspend"
                        /\ t.phaseIdx = p /\ t.fileIdx = f
             /\ (s.pc = "persist" /\ s.ret = "file_suspend") =>
                   /\ t.pc = "fileerr" /\ t.fileErrorResolve
                   /\ t.phaseIdx = p /\ t.fileIdx = f
                   /\ builds'[s.build].phases[p].files[f].status = "error"
             /\ (s.pc = "fileerr" /\ ~s.aborted /\ last'.inp = "retry") =>
                   /\ t.phaseIdx = p /\ t.fileIdx = f
                   /\ t.phases[p].files[f].status = "generating"
                   /\ last'.evs = <<Ev("file-generating", p, f)>>
             /\ (s.pc = "write" /\ s.wsite = "file" /\ s.retried = <<p, f>>
                   /\ last'.fs.op # "none") =>
                   /\ t.phases[p].files[f].status = "created"
                   /\ Ev("file-created", p, f) \in RANGE(last'.evs)
             /\ (s.pc = "persist" /\ s.ret = "file_next") => t.fileIdx > f
      ]_vars

\* A run whose file was retried after three rejected attempts has the file
\* created and is recording the build complete
C15_Witness ==
    \E r \in RunnerIds :
        /\ runners[r].retried # <<0, 0>>
        /\ runners[r].phases[runners[r].retried[1]].files[runners[r].retried[2]].status = "created"
        /\ runners[r].pc = "persist"
        /\ runners[r].upd.status = "complete"

\* C16: a file-error suspension resolved with retry goes on at the same file
\* index; resolved with cancel it ends the run as cancelled and no further
\* file is generated; resolved with any other value or by the timeout it
\* leaves the file in status error and goes on after that index.
C16_DecisionSemantics ==
    [][\A r \in RunnerIds :
          LET s == runners[r]
              t == runners'[r]
              p == s.phaseIdx
              f == s.fileIdx
          IN (last'.r = r /\ s.pc = "fileerr") =>
             /\ last'.inp = "retry" =>
                   /\ t.phaseIdx = p /\ t.fileIdx = f
                   /\ t.phases[p].files[f].status = "generating"
             /\ last'.inp = "cancel" =>
                   /\ t.pc = "persist" /\ t.upd.status = "cancelled" /\ t.ret = "return"
                   /\ t.phases = s.phases
                   /\ last'.evs = <<Ev("build-error", 0, 0)>>
             /\ last'.inp \notin {"", "retry", "cancel"} =>
                   /\ t.phaseIdx = p /\ t.fileIdx > f
                   /\ t.phases[p].files[f].status = "error"
                   /\ \A j \in (f + 1)..(t.fileIdx - 1) :
                         s.phases[p].files[j].status \in {"created", "updated"}
                   /\ Ev("file-generating", p, f) \notin RANGE(last'.evs)
      ]_vars

\* A suspension has just been resolved with a value that is neither retry
\* nor cancel: the file stays error and the loop is past it
C16_Witness ==
    /\ last.r # 0 /\ last.inp = "later"
    /\ runners[last.r].fileIdx = 2
    /\ runners[last.r].phases[1].files[1].status = "error"

\* C17: a live runner suspended for a file-error decision always holds the
\* resolver that resolveFileError calls, so that a call ends the suspension
\* with its decision; a live runner that is not suspended holds none, so
\* that a call changes nothing.
C17_SuspensionResolvable ==
    \A b \in BuildIds :
        activeRunners[b] # 0 =>
           ((runners[activeRunners[b]].pc = "fileerr")
               <=> runners[activeRunners[b]].fileErrorResolve)

\* C18: in the phased file loop a rejected generation call or File Store
\* write of a file never ends the run: the call is retried or the runner
\* goes to the suspension; and when no decision is posted, a suspended
\* runner is eventually released by the timeout.
C18_FailureSuspendsThenSkips ==
    /\ [][\A r \in RunnerIds :
            LET s == runners[r]
                t == runners'[r]
            IN (/\ last'.r = r /\ last'.inp = "reject"
                /\ \/ s.pc = "ai" /\ s.site = "file"
                   \/ s.pc = "write" /\ s.wsite = "file")
               => \/ t.pc = "delay"
                  \/ t.pc = "persist" /\ t.ret = "file_suspend" /\ t.upd.status = ""
         ]_vars
    /\ \A r \in RunnerIds :
          (runners[r].pc = "fileerr") ~> (last.r = r /\ last.inp = "timeout")

\* A build has ended complete with a file left error by a skipped suspension
C18_Witness ==
    \E b \in BuildIds :
        /\ builds[b].status = "complete"
        /\ \E p \in DOMAIN builds[b].phases :
              \E f \in DOMAIN builds[b].phases[p].files :
                  builds[b].phases[p].files[f].status = "error"
        /\ last.wst = "complete"

\* C19: in the agentic loop a create or update action whose generation call
\* is rejected on the last attempt, or whose File Store write is rejected,
\* marks its dynamic FileState error, emits file-error and leads to the
\* file-error suspension; the run does not go on to record status error.
C19_AgenticFailureSuspends ==
    [][\A r \in RunnerIds :
          LET s == runners[r]
              t == runners'[r]
          IN (/\ last'.r = r /\ last'.inp = "reject" /\ ~s.aborted
              /\ \/ s.pc = "ai" /\ s.site \in {"aupdate", "acreate"}
                       /\ s.attempt = MAX_RETRIES
                 \/ s.pc = "write" /\ s.wsite \in {"aupdate", "acreate"})
             => /\ t.phases[1].files[s.fileIdx].status = "error"
                /\ Ev("file-error", 1, s.fileIdx) \in RANGE(last'.evs)
                /\ t.pc = "persist" /\ t.ret = "file_suspend"
                /\ t.upd.status # "error"
      ]_vars

\* The paths a review answer may ask to fix
FixPathsOf(s) == UNION {RANGE(x.list) : x \in Responses(s)}

\* C20: a fix returned by the review of phase p for a path planned in
\* another phase q and not in p changes the FileState at that path's index
\* in phases[q] and no other, and its file-updating and file-updated or
\* file-error events carry q and that index.
C20_CrossPhaseFix ==
    [][\A r \in RunnerIds :
          LET s == runners[r]
              t == runners'[r]
              p == s.phaseIdx
          IN last'.r = r =>
             /\ (s.pc = "ai" /\ s.site = "review" /\ t.pc = "persist" /\ t.ret = "fix_call") =>
                   \E q \in DOMAIN s.plan.phases :
                      \E j \in DOMAIN s.plan.phases[q] :
                         /\ s.plan.phases[q][j] \in FixPathsOf(s)
                         /\ (q = p) <=> (FindIndex(s.plan.phases[p], s.plan.phases[q][j]) # 0)
                         /\ last'.evs = <<Ev("file-updating", q, j)>>
                         /\ t.phases = [s.phases EXCEPT ![q].files[j].status = "updating"]
                         /\ t.fixP = q /\ t.fixF = j
             /\ (t.pc # "idle" /\ <<t.fixP, t.fixF>> # <<s.fixP, s.fixF>>) =>
                   s.pc = "ai" /\ s.site = "review"
             /\ (s.pc = "write" /\ s.wsite = "fix" /\ last'.fs.op # "none") =>
                   /\ last'.fs.path = s.plan.phases[s.fixP][s.fixF]
                   /\ last'.evs = <<Ev("file-updated", s.fixP, s.fixF)>>
                   /\ t.phases = [s.phases EXCEPT ![s.fixP].files[s.fixF].status = "updated"]
             /\ (/\ last'.inp = "reject"
                 /\ \/ s.pc = "write" /\ s.wsite = "fix"
                    \/ s.pc = "ai" /\ s.site = "fix" /\ s.attempt = MAX_RETRIES) =>
                   /\ last'.evs = <<Ev("file-error", s.fixP, s.fixF)>>
                   /\ t.phases = [s.phases EXCEPT ![s.fixP].files[s.fixF].status = "error"]
      ]_vars

\* The review of phase 2 had a file of phase 1 patched: file-updated has
\* just been emitted with phase index 1
C20_Witness ==
    /\ last.r # 0
    /\ runners[last.r].phaseIdx = 2
    /\ last.evs = <<Ev("file-updated", 1, 1)>>
    /\ FindIndex(runners[last.r].plan.phases[2], last.fs.path) = 0
    /\ runners[last.r].phases[1].files[1].status = "updated"

\* The runner is in the review of its current phase: the review call, or a
\* fix of the cross-phase fix loop
InReview(s) ==
    \/ s.pc = "persist" /\ s.ret \in {"review_call", "fix_call", "fix_next"}
    \/ s.pc \in {"ai", "aicont", "delay"} /\ s.site \in {"review", "fix"}
    \/ s.pc = "write" /\ s.wsite = "fix"

\* C21: once the review of a phase has begun, every step of the runner
\* stays in the review, marks the phase complete, or ends the run as
\* cancelled with the abort signal set; a review call rejected for good, an
\* unparseable review answer and a failed fix never lead to status error.
C21_ReviewNeverBlocks ==
    [][\A r \in RunnerIds :
          LET s == runners[r]
              t == runners'[r]
              p == s.phaseIdx
              completes == /\ t.pc = "persist" /\ t.ret = "phase_next"
                           /\ t.phaseIdx = p
                           /\ t.phases[p].status = "complete"
                           /\ Ev("phase-complete", p, 0) \in RANGE(last'.evs)
          IN (last'.r = r /\ InReview(s)) =>
             /\ \/ InReview(t) /\ t.phaseIdx = p
                \/ completes
                \/ s.aborted /\ t.pc = "persist" /\ t.upd.status = "cancelled"
             /\ (s.pc = "ai" /\ s.site = "review" /\ last'.inp = "reject"
                   /\ (s.attempt = MAX_RETRIES \/ s.aborted)) => completes
             /\ (last'.inp = "reject" /\ (s.site = "fix" \/ s.pc = "write")) =>
                   t.pc \in {"delay", "persist"} /\ t.upd.status # "error"
      ]_vars

\* The review call has just been rejected for good and the phase is being
\* recorded complete
C21_Witness ==
    /\ last.r # 0 /\ last.inp = "reject" /\ ~last.aborted
    /\ \E p \in 1..2 : last.evs = <<Ev("phase-complete", p, 0)>>
    /\ runners[last.r].ret = "phase_next"

\* The run got a conversational planning result and is storing the reply
\* or recording the build complete
ConvRun(s) ==
    \/ s.pc = "msg" /\ s.ret = "conv"
    \/ s.pc = "persist" /\ s.upd.status = "complete" /\ s.plan.kind = "none"

\* C22: from a conversational planning result on, the run performs no File
\* Store operation and keeps plan and phases unset; it stores one assistant
\* message and ends with durable status complete, plan and phases unset.
C22_ConversationRun ==
    [][\A r \in RunnerIds :
          LET s == runners[r]
              t == runners'[r]
          IN last'.r = r =>
             /\ (s.pc = "ai" /\ s.site = "plan" /\ t.pc = "msg" /\ t.ret = "conv") =>
                   t.plan = NoPlan /\ t.phases = <<>> /\ t.msgs = 0
             /\ ConvRun(s) =>
                   /\ last'.fs.op = "none"
                   /\ IF t.pc = "idle"
                      THEN /\ s.msgs = 1
                           /\ builds'[s.build].status = "complete"
                           /\ builds'[s.build].plan = NoPlan
                           /\ builds'[s.build].phases = <<>>
                      ELSE /\ ConvRun(t) /\ t.msgs = 1
                           /\ t.plan = NoPlan /\ t.phases = <<>>
                           /\ last'.evs = <<Ev("conversation-response", 0, 0)>>
      ]_vars

\* A run with a conversational planning result has just ended
C22_Witness ==
    /\ last.r # 0 /\ last.wst = "complete"
    /\ runners[last.r].pc = "idle"
    /\ builds[last.build].status = "complete"
    /\ builds[last.build].plan = NoPlan

\* C23: the agentic loop makes its action-choosing call only at steps 0 to
\* 19 and logs one action per step; the end of the 20th step goes to the
\* wrap-up, whose summary lists the logged actions other than read, and the
\* run then emits build-complete and ends with durable status complete.
C23_StepCap ==
    [][\A r \in RunnerIds :
          LET s == runners[r]
              t == runners'[r]
          IN (last'.r = r /\ s.plan.kind = "quick") =>
             /\ (t.pc = "ai" /\ t.site = "step") => t.step < 20
             /\ t.pc # "idle" => Len(t.log) = t.step /\ t.step <= 20
             /\ (s.step = 19 /\ t.step = 20) =>
                   /\ t.pc = "msg" /\ t.ret = "agent_done"
                   /\ Len(t.summary) = Cardinality({k \in 1..20 : t.log[k][1] # "read"})
                   /\ \A k \in 1..20 :
                         t.log[k][1] # "read" =>
                            t.summary[Cardinality({i \in 1..k : t.log[i][1] # "read"})]
                               = t.log[k]
             /\ (s.pc = "msg" /\ s.ret = "agent_done") =>
                   /\ last'.evs = <<Ev("build-complete", 0, 0)>>
                   /\ t.pc = "persist" /\ t.upd.status = "complete" /\ t.ret = "return"
             /\ (s.pc = "persist" /\ s.upd.status = "complete") =>
                   t.pc = "idle" /\ builds'[s.build].status = "complete"
      ]_vars

\* The 20th step of a quick change has ended without done: the run is
\* storing a summary that names a change and leaves out the reads
C23_Witness ==
    \E r \in RunnerIds :
        /\ runners[r].pc = "msg" /\ runners[r].ret = "agent_done"
        /\ runners[r].step = 20
        /\ runners[r].summary # <<>>
        /\ Len(runners[r].summary) < Len(runners[r].log)

\* C24: a callAI invocation makes its gateway request at attempts 0 to 2
\* only; with the abort signal set it starts no further attempt, and a
\* gateway answer that arrives is not returned as text.
C24_CancelledCallFails ==
    [][\A r \in RunnerIds :
          LET s == runners[r]
              t == runners'[r]
          IN (last'.r = r /\ s.pc \in {"ai", "aicont", "delay"}) =>
             /\ s.attempt <= 2
             /\ (s.pc = "delay" /\ t.pc = "ai") => ~s.aborted /\ t.attempt <= 2
             /\ s.aborted => last'.inp # "text"
      ]_vars

\* C25: when the gateway request of a call in flight is rejected with the
\* abort signal set, the runner goes to record the run cancelled: no
\* FileState or PhaseState changes, no file-error or phase-complete event
\* is emitted and no file-error suspension is prepared.
C25_AbortedCallIsCancellation ==
    [][\A r \in RunnerIds :
          LET s == runners[r]
              t == runners'[r]
          IN (last'.r = r /\ s.pc \in {"ai", "aicont"} /\ s.aborted
                /\ last'.inp = "reject") =>
             /\ t.pc = "persist" /\ t.upd.status = "cancelled" /\ t.ret = "return"
             /\ t.phases = s.phases
             /\ last'.evs = <<Ev("build-error", 0, 0)>>
      ]_vars

\* C26: every message a step of the runner puts in a build-error or
\* file-error event, in a FileState.error field or in the error field of
\* the durable record equals sanitizeError of the message of the error it
\* handles.
C26_MessagesSanitized ==
    last.err.raw # NoMsg =>
       \A m \in {last.err.event, last.err.state, last.err.durable} :
           m # NoMsg =>
              m = sanitizeError(OrElse(last.err.raw, m))

\* C27: once the durable status of a build is complete, no step changes
\* it, whatever request arrives.
C27_CompleteIsFinal ==
    [][\A b \in BuildIds :
          builds[b].status = "complete" => builds'[b].status = "complete"]_vars

\* C28: when loadExistingFiles returns in resume(), every path of Project
\* Memory is the path of a row of the File Store, and its content in
\* Project Memory is the content of that row.
C28_HydratedMemoryIsStored ==
    [][\A r \in RunnerIds :
          (last'.r = r /\ runners[r].pc = "load" /\ runners[r].kind = "resume") =>
             \A p \in Paths :
                runners'[r].mem[p] # Absent =>
                   \E id \in FileIds : /\ files'[id].path = p
                                       /\ files'[id].content = runners'[r].mem[p]]_vars

\* C29: a Resume request for a build whose durable status is neither error
\* nor cancelled is not accepted: the step that answers it changes nothing,
\* and a runner is launched in resume() only for an accepted request.
C29_ResumeRejected ==
    [][\A b \in BuildIds :
          /\ (builds[b].status \notin Resumable /\ ~resumeReq[b]) => ~resumeReq'[b]
          /\ (last'.inp = "rejected" /\ last'.build = b) =>
                /\ builds[b].status \notin Resumable
                /\ UNCHANGED <<builds, files, runners, activeRunners, resumeReq>>
          /\ \A r \in RunnerIds :
                (runners[r].build # b /\ runners'[r].build = b /\ runners'[r].kind = "resume") =>
                   resumeReq[b]]_vars

C29_Witness ==
    /\ last.inp = "rejected"
    /\ builds[last.build].status = "complete"
    /\ ~resumeReq[last.build]
    /\ \A r \in RunnerIds : runners[r].build # last.build

\* A step of a runner in resume() issues no planning or plan-revision call,
\* persists neither planning nor awaiting-approval and does not wait for
\* an approval
NoPlanningStep(t) ==
    /\ ~(t.pc \in {"ai", "aicont"} /\ t.site \in {"plan", "edit"})
    /\ ~(t.pc = "persist" /\ t.upd.status \in {"planning", "awaiting-approval"})
    /\ t.pc # "approval"
    /\ ~t.approvalResolve

\* A step of a runner without a plan generates nothing: no gateway call
\* and no File Store write
NoGeneration(t) ==
    /\ t.pc \notin {"ai", "aicont", "write", "delete", "msg"}
    /\ last'.fs.op = "none"

\* C30 as stated: resume() never plans nor awaits approval; when
\* loadExistingFiles returns it goes to phase execution with a persisted
\* plan, and without one it ends the run with status error, generating
\* nothing.
C30_ResumeNoPlanning ==
    [][\A r \in RunnerIds :
          LET s == runners[r]
              t == runners'[r]
          IN (last'.r = r /\ s.kind = "resume") =>
                /\ NoPlanningStep(t)
                /\ (s.pc = "load" /\ t.plan # NoPlan) =>
                      t.pc = "persist" /\ t.upd.status = "building" /\ t.ret = "exec"
                /\ (s.pc = "load" /\ t.plan = NoPlan) =>
                      t.pc = "persist" /\ t.upd.status = "error" /\ t.ret = "return"
                /\ (s.pc # "getBuild" /\ s.plan = NoPlan) => NoGeneration(t)]_vars

\* C30 amended: ... without a persisted plan it ends the run with status
\* error, or with status cancelled when the build was cancelled while
\* resume() was loading, generating nothing.
C30_ResumeNoPlanningOrCancelled ==
    [][\A r \in RunnerIds :
          LET s == runners[r]
              t == runners'[r]
          IN (last'.r = r /\ s.kind = "resume") =>
                /\ NoPlanningStep(t)
                /\ (s.pc = "load" /\ t.plan # NoPlan) =>
                      t.pc = "persist" /\ t.upd.status = "building" /\ t.ret = "exec"
                /\ (s.pc = "load" /\ t.plan = NoPlan) =>
                      /\ t.pc = "persist" /\ t.ret = "return"
                      /\ t.upd.status = IF s.aborted THEN "cancelled" ELSE "error"
                /\ (s.pc # "getBuild" /\ s.plan = NoPlan) => NoGeneration(t)]_vars

C30_Witness ==
    /\ last.r # 0
    /\ runners[last.r].kind = "resume"
    /\ runners[last.r].plan = NoPlan
    /\ runners[last.r].pc = "persist"
    /\ runners[last.r].upd.status = "error"
    /\ builds[last.build].status = "building"

\* C31: a runner on which cancel() was called eventually ends its run,
\* wherever it was when the cancel came.
C31_CancelledRunEnds ==
    \A r \in RunnerIds : runners[r].aborted ~> (runners[r].pc = "idle")

\* C32: the step in which a subscriber's listener is removed leaves every
\* runner (abort signal, plan, phases, suspensions, position) and the
\* registry as they were, so the build goes on as before.
C32_DisconnectIsSilent ==
    [][(\E i \in SubIds : subs[i].state # "none" /\ subs'[i].state = "none") =>
          /\ runners' = runners
          /\ activeRunners' = activeRunners
          /\ builds' = builds
          /\ cancelled' = cancelled]_vars

\* The only subscriber of a runner that is suspended at the approval gate has
\* just disconnected
C32_Witness ==
    /\ last.inp = "close"
    /\ activeRunners[last.build] # 0
    /\ runners[activeRunners[last.build]].approvalResolve
    /\ ~runners[activeRunners[last.build]].aborted
    /\ \A i \in SubIds : subs[i].state = "none"

\* C33: a runner that is executing start() or resume() and on which
\* cancel() was not called is the registry entry of its build.
C33_ExecutingIsRegistered ==
    \A r \in RunnerIds :
        (runners[r].pc # "idle" /\ ~runners[r].aborted) =>
           activeRunners[runners[r].build] = r

\* C34: no two runners are executing start() or resume() for the same
\* build at the same time.
C34_OneExecutingRunner ==
    \A r1, r2 \in RunnerIds :
        (r1 # r2 /\ runners[r1].pc # "idle" /\ runners[r2].pc # "idle") =>
           runners[r1].build # runners[r2].build

\* C35: in a build whose plan received no approve or edit decision, no
\* run, resumed runs included, issues a generation call for a planned file
\* or writes to the File Store.
C35_NoFilesWithoutApproval ==
    [][\A r \in RunnerIds :
          last'.r = r =>
             /\ last'.fs.op = "none"
             /\ ~(runners'[r].pc = "ai" /\ runners'[r].site \in {"file", "fix"})
             /\ runners'[r].pc # "write"]_vars

\* C36: a decision at the approval gate whose action is neither approve nor
\* edit with instructions does not take the runner to building: the step
\* that resolves the approval neither emits plan-approved nor goes on to
\* persist status building.
C36_OnlyApproveStartsBuilding ==
    [][\A r \in RunnerIds :
          (last'.r = r /\ runners[r].pc = "approval") =>
             /\ \A k \in DOMAIN last'.evs : last'.evs[k].type # "plan-approved"
             /\ ~(runners'[r].pc = "persist" /\ runners'[r].upd.status = "building")]_vars

\* C37: a runner holds a pending file error, and the resolver of the
\* suspension, exactly while it is suspended for a file-error decision.
C37_PendingWhileSuspended ==
    \A r \in RunnerIds :
        /\ runners[r].pendingFileError <=> (runners[r].pc = "fileerr")
        /\ runners[r].pendingFileError <=> runners[r].fileErrorResolve

NoTransient(phases, p) ==
    \A f \in DOMAIN phases[p].files : phases[p].files[f].status \notin Transient

\* C38: in the durable record and in every runner, a phase that is complete
\* has no FileState in a transient status, and a build that is complete has
\* none in any phase.
C38_CompleteHasNoTransient ==
    /\ \A b \in BuildIds : \A p \in DOMAIN builds[b].phases :
          (builds[b].phases[p].status = "complete" \/ builds[b].status = "complete") =>
             NoTransient(builds[b].phases, p)
    /\ \A r \in RunnerIds : \A p \in DOMAIN runners[r].phases :
          runners[r].phases[p].status = "complete" => NoTransient(runners[r].phases, p)

\* C39: every file-reading and file-read event of the dependency read pass
\* carries the index of the FileState the pass has just appended for the
\* path, the last entry of the phase, and that entry is the one whose
\* status the step sets (reading, then read).
C39_ReadIndexIsAppended ==
    [][\A r \in RunnerIds :
          last'.r = r =>
             \A k \in DOMAIN last'.evs :
                LET e == last'.evs[k]
                    fl == runners'[r].phases[e.p].files
                IN e.type \in {"file-reading", "file-read"} =>
                      /\ e.f = Len(fl)
                      /\ fl[e.f].status = (IF e.type = "file-reading" THEN "reading" ELSE "read")
      ]_vars

\* A step of the agentic loop: a step or action call, a File Store write or
\* delete, or a planning call that could lead back to the loop
AgenticStep(t) ==
    \/ t.pc \in {"ai", "aicont"} /\ t.site \in {"plan", "step", "aread", "aupdate", "acreate"}
    \/ t.pc \in {"write", "delete"}
    \/ t.pc = "persist" /\ t.ret \in {"agent_loop", "step_call", "agent_act"}
    \/ last'.fs.op # "none"

\* The steps of a resumed run of a quick-change plan up to its summary: no
\* step of the agentic loop, and the summary call starts with the single
\* phase complete
QuickResumePath(s, t) ==
    /\ ~AgenticStep(t)
    /\ (t.pc = "ai" /\ t.site = "summary") => t.phases[1].status = "complete"
    /\ (t.pc = "persist" /\ t.upd.status = "complete") => s.pc = "msg" /\ s.site = "summary"

\* C40 as stated: a resumed run of a quick-change plan does not re-enter
\* the agentic loop, writes and deletes nothing, completes the single
\* phase, runs the summary step and ends with status complete.
C40_QuickResumeCompletes ==
    [][\A r \in RunnerIds :
          LET s == runners[r]
              t == runners'[r]
          IN (last'.r = r /\ s.kind = "resume" /\ s.plan.kind = "quick") =>
                /\ QuickResumePath(s, t)
                /\ (t.pc = "persist" /\ t.ret = "return") => t.upd.status = "complete"]_vars

\* C40 amended: ... and ends with status complete, unless the build is
\* cancelled again (cancelled) or the summary call is rejected (error).
C40_QuickResumeCompletesUnlessStopped ==
    [][\A r \in RunnerIds :
          LET s == runners[r]
              t == runners'[r]
          IN (last'.r = r /\ s.kind = "resume" /\ s.plan.kind = "quick") =>
                /\ QuickResumePath(s, t)
                /\ (t.pc = "persist" /\ t.ret = "return") =>
                      \/ t.upd.status = "complete"
                      \/ t.upd.status = "cancelled" /\ s.aborted
                      \/ /\ t.upd.status = "error" /\ ~s.aborted
                         /\ s.site = "summary" /\ last'.inp = "reject"]_vars

\* A resumed run of a quick-change plan whose phase was persisted active is
\* about to persist status complete
C40_Witness ==
    /\ last.r # 0
    /\ runners[last.r].kind = "resume"
    /\ runners[last.r].plan.kind = "quick"
    /\ runners[last.r].persisted[1].status = "active"
    /\ runners[last.r].phases[1].status = "complete"
    /\ runners[last.r].pc = "persist"
    /\ runners[last.r].upd.status = "complete"

====
